---- MODULE Spec2Model ----
(***************************************************************************)
(* Model of the ODP bot's three-tier retrieval and answer pipeline         *)
(* (QueryService.answer_question and the services it calls).               *)
(*                                                                         *)
(* Text is modelled by TLA+ strings at character level: the classifiers    *)
(* (is_greeting, is_new_question, has_missing_info_signal, deal detection, *)
(* clarifier, fact-key derivation) are computed on the characters the way  *)
(* the Python code computes them (lower(), substring tests, splitting).    *)
(* The box-drawing characters of the prompt headers are written "--".      *)
(***************************************************************************)
EXTENDS Integers, Sequences, FiniteSets, TLC

-----------------------------------------------------------------------------
(* Python string primitives                                                *)

UpperAlpha == "ABCDEFGHIJKLMNOPQRSTUVWXYZ"

LowerAlpha == "abcdefghijklmnopqrstuvwxyz"

Digits == "0123456789"

CharAt(s, i) == SubSeq(s, i, i)

InChars(c, chars) == \E i \in 1..Len(chars) : CharAt(chars, i) = c

LowerChar(c) ==
    IF InChars(c, UpperAlpha)
    THEN CharAt(LowerAlpha, CHOOSE i \in 1..26 : CharAt(UpperAlpha, i) = c)
    ELSE c

RECURSIVE Lower(_)
Lower(s) == IF s = "" THEN "" ELSE LowerChar(CharAt(s, 1)) \o Lower(SubSeq(s, 2, Len(s)))

UpperChar(c) ==
    IF InChars(c, LowerAlpha)
    THEN CharAt(UpperAlpha, CHOOSE i \in 1..26 : CharAt(LowerAlpha, i) = c)
    ELSE c

IsAlpha(c) == InChars(c, LowerAlpha) \/ InChars(c, UpperAlpha)

\* s.title(): a letter after a non-letter is upper-cased, any other letter lower-cased
RECURSIVE TitleFrom(_, _)
TitleFrom(s, after_letter) ==
    IF s = "" THEN ""
    ELSE LET c == CharAt(s, 1)
         IN (IF ~IsAlpha(c) THEN c ELSE IF after_letter THEN LowerChar(c) ELSE UpperChar(c))
            \o TitleFrom(SubSeq(s, 2, Len(s)), IsAlpha(c))

Title(s) == TitleFrom(s, FALSE)

\* s.replace(a, b) for single characters
RECURSIVE ReplaceChar(_, _, _)
ReplaceChar(s, a, b) ==
    IF s = "" THEN ""
    ELSE (IF CharAt(s, 1) = a THEN b ELSE CharAt(s, 1)) \o ReplaceChar(SubSeq(s, 2, Len(s)), a, b)

IsSpace(c) == c \in {" ", "\n", "\t"}

IsWordChar(c) == InChars(c, LowerAlpha) \/ InChars(c, UpperAlpha) \/ InChars(c, Digits) \/ c = "_"

RECURSIVE LStrip(_)
LStrip(s) == IF s # "" /\ IsSpace(CharAt(s, 1)) THEN LStrip(SubSeq(s, 2, Len(s))) ELSE s

RECURSIVE RStrip(_)
RStrip(s) == IF s # "" /\ IsSpace(CharAt(s, Len(s))) THEN RStrip(SubSeq(s, 1, Len(s) - 1)) ELSE s

Strip(s) == RStrip(LStrip(s))

\* k in s
Contains(s, k) == \E i \in 1..(Len(s) - Len(k) + 1) : SubSeq(s, i, i + Len(k) - 1) = k

\* s.find(k): 0-based index of the first occurrence, -1 when absent
Find(s, k) ==
    IF Contains(s, k)
    THEN (CHOOSE i \in 1..(Len(s) - Len(k) + 1) :
            /\ SubSeq(s, i, i + Len(k) - 1) = k
            /\ \A j \in 1..(i - 1) : SubSeq(s, j, j + Len(k) - 1) # k) - 1
    ELSE -1

StartsWith(s, k) == Len(k) <= Len(s) /\ SubSeq(s, 1, Len(k)) = k

\* s[n:]
From(s, n) == SubSeq(s, n + 1, Len(s))

\* re.sub(r"[^\w\s]", " ", s)
RECURSIVE PunctToSpace(_)
PunctToSpace(s) ==
    IF s = "" THEN ""
    ELSE LET c == CharAt(s, 1)
         IN (IF IsWordChar(c) \/ IsSpace(c) THEN c ELSE " ") \o PunctToSpace(SubSeq(s, 2, Len(s)))

\* s.split(): the maximal runs of non-whitespace characters
RECURSIVE SplitAcc(_, _, _)
SplitAcc(s, cur, acc) ==
    IF s = "" THEN (IF cur = "" THEN acc ELSE Append(acc, cur))
    ELSE LET c == CharAt(s, 1)
             rest == SubSeq(s, 2, Len(s))
         IN IF IsSpace(c)
            THEN SplitAcc(rest, "", IF cur = "" THEN acc ELSE Append(acc, cur))
            ELSE SplitAcc(rest, cur \o c, acc)

Split(s) == SplitAcc(s, "", <<>>)

RECURSIVE JoinWith(_, _)
JoinWith(ws, sep) ==
    IF ws = <<>> THEN ""
    ELSE IF Len(ws) = 1 THEN ws[1]
    ELSE ws[1] \o sep \o JoinWith(Tail(ws), sep)

RECURSIVE SelectSeqStr(_, _)
SelectSeqStr(ws, S) ==
    IF ws = <<>> THEN <<>>
    ELSE (IF ws[1] \in S THEN <<>> ELSE <<ws[1]>>) \o SelectSeqStr(Tail(ws), S)

-----------------------------------------------------------------------------
(* Question analyzer: QueryService._is_greeting, _is_new_question,         *)
(* _has_missing_info_signal                                                *)

GREETING_PATTERNS ==
    {"hello", "hi", "hey", "hiya", "howdy",
     "good morning", "good afternoon", "good evening", "good day",
     "how are you", "how r u", "what's up", "whats up", "sup",
     "thanks", "thank you", "thank you!", "thanks!", "cheers",
     "bye", "goodbye", "see you", "talk later",
     "ok", "okay", "alright", "got it", "noted",
     "yes", "no", "sure", "great", "perfect", "sounds good"}

MISSING_INFO_SIGNALS ==
    {"we don't have", "we do not have", "not in our knowledge base",
     "not found in our", "could you provide", "could you share",
     "please provide", "please share", "i need the following",
     "missing from our knowledge base", "not present in our documents",
     "i don't have", "i do not have"}

QUESTION_STARTERS ==
    {"what", "when", "where", "which", "who", "why", "how",
     "can you", "could you", "do you", "is there", "are there",
     "tell me", "please tell", "please provide", "please share",
     "can we", "would you"}

BUSINESS_KEYWORDS ==
    {"minimum", "ticket", "investment", "deal", "structure",
     "payment", "date", "fee", "fees", "carry", "valuation",
     "return", "returns", "fund", "close", "closing", "allocation",
     "share", "shares", "price", "wire", "document", "documents",
     "sign", "subscription", "information", "details", "lockup",
     "lock", "period", "spv", "equity", "preferred", "common",
     "distribution", "ebitda", "arr", "revenue", "growth",
     "what", "when", "where", "which", "who", "why",
     "can you", "could you", "please", "tell me", "explain",
     "do you have", "is there", "are there", "how much", "how many",
     "how long", "how do"}

SOCIAL_FILLER ==
    {"hello", "hi", "hey", "hiya", "howdy", "good", "morning",
     "afternoon", "evening", "day", "how", "are", "you", "doing",
     "i", "am", "we", "bot", "there", "mate", "sir", "team",
     "thanks", "thank", "cheers", "bye", "goodbye", "ok", "okay",
     "alright", "sure", "great", "perfect", "noted", "got", "it",
     "very", "well", "fine", "nice", "sup", "whats", "up"}

GREETING_STARTERS ==
    {"hello", "hi", "hey", "hiya", "howdy", "good",
     "thanks", "thank", "bye", "goodbye", "ok", "okay", "alright"}

\* the longest message the greeting rule still accepts, in words
GreetingMaxWords == 8

is_greeting(question) ==
    LET words     == Split(PunctToSpace(Lower(Strip(question))))
        text      == JoinWith(words, " ")
        remaining == SelectSeqStr(words, SOCIAL_FILLER)
    IN IF text \in GREETING_PATTERNS THEN TRUE
       ELSE IF words = <<>> THEN FALSE
       ELSE IF words[1] \in GREETING_STARTERS
            THEN IF remaining = <<>> THEN TRUE
                 ELSE IF \E i \in 1..Len(remaining) : remaining[i] \in BUSINESS_KEYWORDS THEN FALSE
                 ELSE Len(words) <= GreetingMaxWords
       ELSE FALSE

is_new_question(question) ==
    LET q == Strip(Lower(question))
    IN \E starter \in QUESTION_STARTERS : StartsWith(q, starter)

\* a classifier that compares the answer as written, without lower-casing it
missing_info_signal_case_sensitive(answer) ==
    \E sig \in MISSING_INFO_SIGNALS : Contains(answer, sig)

has_missing_info_signal(answer) ==
    LET answer_lower == Lower(answer)
    IN \E sig \in MISSING_INFO_SIGNALS : Contains(answer_lower, sig)

-----------------------------------------------------------------------------
(* Clarifier: ClarificationService                                         *)

DEAL_SPECIFIC_KEYWORDS ==
    {"structure", "minimum", "ticket", "fee", "fees", "carry",
     "management fee", "payment", "close", "closing", "timeline",
     "valuation", "revenue", "ipo", "lock", "lock-up", "lock up",
     "return", "returns", "share", "equity", "spv", "allocation",
     "upfront", "profit", "capital", "preferred", "common", "secondary",
     "distribution", "price", "cost", "how much", "how long",
     "invest", "investing", "investment", "deal", "terms",
     "when", "deadline", "date", "dates", "schedule",
     "documents", "sign", "dropbox", "wiring", "wire",
     "ebitda", "arr", "growth", "customers"}

GENERAL_KEYWORDS ==
    {"hello", "hi", "hey", "how are you",
     "what can you", "what do you", "who are you",
     "what is odp", "open doors", "what deals", "which deals",
     "what opportunities", "what investment", "what do you offer",
     "tell me about", "available deals", "current deals"}

\* a clarifier whose rule 3 lets deal-specific questions through
clarify_vague_only(question, chunks_found, confidence, has_deal_context) ==
    LET question_lower == Strip(Lower(question))
    IN IF has_deal_context THEN FALSE
       ELSE IF \E pattern \in GENERAL_KEYWORDS : Contains(question_lower, pattern) THEN FALSE
       ELSE IF \E keyword \in DEAL_SPECIFIC_KEYWORDS : Contains(question_lower, keyword) THEN FALSE
       ELSE TRUE

\* a clarifier that lets a retrieval without chunks override the deal context
clarify_when_nothing_found(question, chunks_found, confidence, has_deal_context) ==
    LET question_lower == Strip(Lower(question))
    IN IF has_deal_context /\ chunks_found > 0 THEN FALSE
       ELSE IF \E pattern \in GENERAL_KEYWORDS : Contains(question_lower, pattern) THEN FALSE
       ELSE TRUE

\* chunks_found and confidence are parameters the decision never reads
needs_clarification(question, chunks_found, confidence, has_deal_context) ==
    LET question_lower == Strip(Lower(question))
    IN IF has_deal_context THEN FALSE
       ELSE IF \E pattern \in GENERAL_KEYWORDS : Contains(question_lower, pattern) THEN FALSE
       ELSE IF \E keyword \in DEAL_SPECIFIC_KEYWORDS : Contains(question_lower, keyword) THEN TRUE
       ELSE TRUE

\* the fast path of generate_clarifying_question: no LLM call
is_deal_specific(question) ==
    \E keyword \in DEAL_SPECIFIC_KEYWORDS : Contains(Lower(question), keyword)

\* llm_text: what the LLM returns on the slow path
generate_clarifying_question(question, available_deals, llm_text) ==
    LET deal_prompt ==
            IF Len(available_deals) > 0
            THEN "Are you asking about " \o JoinWith(available_deals, " or ") \o "?"
            ELSE "Could you let me know which deal you're asking about?"
    IN IF is_deal_specific(question)
       THEN "Happy to help! " \o deal_prompt
       ELSE Strip(llm_text)

-----------------------------------------------------------------------------
(* Deal registry: DealContextService                                       *)

\* deal_id of "no deal" (Python None; the code tests deal ids by truthiness)
NoDeal == 0

\* rows of odp_deals with status = True, in query order
ActiveDeals ==
    << [deal_id |-> 1, deal_name |-> "SpaceX",    deal_code |-> "SPX"],
       [deal_id |-> 2, deal_name |-> "Anthropic", deal_code |-> "ANTH"] >>

DealIds == {ActiveDeals[i].deal_id : i \in 1..Len(ActiveDeals)}

\* db_ok = FALSE: the query raised, the except branch returns []
get_all_active_deals(db_ok) == IF db_ok THEN ActiveDeals ELSE <<>>

RECURSIVE DetectFrom(_, _, _)
DetectFrom(text_lower, all_deals, i) ==
    IF i > Len(all_deals) THEN NoDeal
    ELSE IF \/ Contains(text_lower, Lower(all_deals[i].deal_name))
            \/ Contains(text_lower, Lower(all_deals[i].deal_code))
         THEN all_deals[i].deal_id
         ELSE DetectFrom(text_lower, all_deals, i + 1)

detect_deal_in_text(text, all_deals) == DetectFrom(Lower(text), all_deals, 1)

\* "" stands for None (unknown deal or failed query)
get_deal_name(deal_id, db_ok) ==
    IF db_ok /\ \E i \in 1..Len(ActiveDeals) : ActiveDeals[i].deal_id = deal_id
    THEN (ActiveDeals[CHOOSE i \in 1..Len(ActiveDeals) : ActiveDeals[i].deal_id = deal_id]).deal_name
    ELSE ""

get_all_deal_names(db_ok) ==
    LET ds == get_all_active_deals(db_ok)
    IN [i \in 1..Len(ds) |-> ds[i].deal_name]

-----------------------------------------------------------------------------
(* Fact decomposer: DealContextService._extract_atomic_facts,              *)
(* _extract_value_after_signal, _derive_fact_key                           *)

\* (topic keywords, answer signals, question template up to {deal_name})
FACT_PATTERNS ==
    << [topic   |-> <<"minimum", "ticket", "check size", "min ticket", "minimum ticket",
                      "minimum check", "min check", "minimum investment">>,
        signals |-> <<"minimum ticket", "min ticket", "minimum check", "min check",
                      "minimum is", "minimum would be", "minimum:", "ticket is",
                      "ticket would be", "ticket:", "check size is", "check size would be",
                      "check size:", "minimum investment">>,
        tmpl    |-> "What is the minimum ticket size for "],
       [topic   |-> <<"payment date", "payment dates", "wire date", "wire dates",
                      "payment deadline", "when to pay", "payment schedule">>,
        signals |-> <<"payment date", "payment dates", "wire date", "wire by",
                      "payment is", "payment would be", "payment:", "dates would be",
                      "date would be", "dates are", "date is">>,
        tmpl    |-> "What are the payment dates for "],
       [topic   |-> <<"structure", "investment structure", "deal structure",
                      "how is it structured", "investing structure">>,
        signals |-> <<"structure is", "structure would be", "structured as",
                      "structured through", "investment structure">>,
        tmpl    |-> "What is the investment structure for "],
       [topic   |-> <<"fee", "fees", "management fee", "carry", "carried interest">>,
        signals |-> <<"fee is", "fees are", "management fee", "carry is",
                      "carry would be", "carried interest">>,
        tmpl    |-> "What are the fees and carry for "],
       [topic   |-> <<"lockup", "lock-up", "lock up", "lock period", "holding period">>,
        signals |-> <<"lockup is", "lock-up is", "lock up is", "lockup period",
                      "holding period", "locked for", "locked up for">>,
        tmpl    |-> "What is the lock-up period for "],
       [topic   |-> <<"closing date", "close date", "deadline", "final close",
                      "closing deadline">>,
        signals |-> <<"closing date", "close date", "deadline is", "closes on",
                      "closing on", "final close">>,
        tmpl    |-> "What is the closing date for "],
       [topic   |-> <<"valuation", "pre-money", "post-money", "company valuation">>,
        signals |-> <<"valuation is", "valued at", "valuation:", "pre-money",
                      "post-money">>,
        tmpl    |-> "What is the valuation of "],
       [topic   |-> <<"price per share", "share price", "stock price", "per share",
                      "price of share", "share cost", "price now", "current price",
                      "cost per share">>,
        signals |-> <<"share price is", "share price:", "price per share is",
                      "price per share:", "price is", "price would be", "priced at",
                      "currently priced", "trading at", "cost is", "price now">>,
        tmpl    |-> "What is the current share price for "],
       [topic   |-> <<"allocation", "how much is available", "available allocation",
                      "total allocation", "remaining allocation">>,
        signals |-> <<"allocation is", "allocation:", "available allocation",
                      "total allocation", "we have", "remaining is">>,
        tmpl    |-> "What is the available allocation for "],
       [topic   |-> <<"return", "irr", "multiple", "expected return", "target return",
                      "projected return">>,
        signals |-> <<"return is", "irr is", "expected return", "target return",
                      "projected return", "multiple is", "multiple would be">>,
        tmpl    |-> "What is the expected return or IRR for "],
       [topic   |-> <<"distribution", "distributions", "distribution schedule",
                      "when are distributions", "distribution frequency">>,
        signals |-> <<"distribution is", "distributions are", "distributed",
                      "distribution schedule", "distributions would be">>,
        tmpl    |-> "What is the distribution schedule for "] >>

CONNECTORS == <<" would be ", " is ", " are ", ": ", " - ", " = ">>

TERMINATORS == <<" and ", ", ", "\n", ". ", " or ", "; ">>

\* the shortest value the decomposer emits, in characters
MinValueLen == 2

\* s.lstrip(chars)
RECURSIVE LStripChars(_, _)
LStripChars(s, chars) ==
    IF s # "" /\ InChars(CharAt(s, 1), chars) THEN LStripChars(SubSeq(s, 2, Len(s)), chars) ELSE s

\* number of characters the connector step removes from the remaining text
SkipLen(remaining_lower) ==
    IF \E i \in 1..Len(CONNECTORS) : StartsWith(remaining_lower, CONNECTORS[i])
    THEN Len(CONNECTORS[CHOOSE i \in 1..Len(CONNECTORS) :
                /\ StartsWith(remaining_lower, CONNECTORS[i])
                /\ \A j \in 1..(i - 1) : ~StartsWith(remaining_lower, CONNECTORS[j])])
    ELSE Len(remaining_lower) - Len(LStripChars(remaining_lower, " :=-"))

RECURSIVE ClauseEnd(_, _, _)
ClauseEnd(remaining_lower, end, i) ==
    IF i > Len(TERMINATORS) THEN end
    ELSE LET pos == Find(remaining_lower, TERMINATORS[i])
         IN ClauseEnd(remaining_lower, IF 0 < pos /\ pos < end THEN pos ELSE end, i + 1)

\* "" stands for None
RECURSIVE ValueFrom(_, _, _, _)
ValueFrom(answer_lower, answer_original, signals, i) ==
    IF i > Len(signals) THEN ""
    ELSE LET idx == Find(answer_lower, signals[i])
         IN IF idx = -1 THEN ValueFrom(answer_lower, answer_original, signals, i + 1)
            ELSE LET start   == idx + Len(signals[i])
                     skip    == SkipLen(From(answer_lower, start))
                     rem_low == From(answer_lower, start + skip)
                     rem_org == From(answer_original, start + skip)
                     end     == ClauseEnd(rem_low, Len(rem_org), 1)
                     value   == Strip(SubSeq(rem_org, 1, end))
                 IN IF Strip(rem_org) = "" THEN ValueFrom(answer_lower, answer_original, signals, i + 1)
                    ELSE IF Len(value) >= MinValueLen THEN value
                    ELSE ValueFrom(answer_lower, answer_original, signals, i + 1)

\* an extraction that cuts the value out of the lower-cased answer
extract_value_from_lowercase(answer_lower, answer_original, signals) ==
    ValueFrom(answer_lower, answer_lower, signals, 1)

extract_value_after_signal(answer_lower, answer_original, signals) ==
    ValueFrom(answer_lower, answer_original, signals, 1)

RECURSIVE FactsFrom(_, _, _, _)
FactsFrom(investor_question, user_answer, deal_name, i) ==
    IF i > Len(FACT_PATTERNS) THEN <<>>
    ELSE LET pat   == FACT_PATTERNS[i]
             q_lower == Lower(investor_question)
             topic_relevant == \E k \in 1..Len(pat.topic) : Contains(q_lower, pat.topic[k])
             value == extract_value_after_signal(Lower(user_answer), user_answer, pat.signals)
             rest  == FactsFrom(investor_question, user_answer, deal_name, i + 1)
         IN IF topic_relevant /\ value # ""
            THEN << <<pat.tmpl \o deal_name \o "?", value>> >> \o rest
            ELSE rest

\* deal_name: get_deal_name(deal_id), "" when the lookup gave None
extract_atomic_facts(investor_question, user_answer, deal_name) ==
    FactsFrom(investor_question, user_answer, IF deal_name = "" THEN "the deal" ELSE deal_name, 1)

KEY_MAPPINGS ==
    << [keywords |-> <<"price per share", "share price", "stock price", "per share",
                       "price of share", "current price", "cost per share">>, key |-> "share_price"],
       [keywords |-> <<"minimum ticket", "min ticket", "check size", "minimum check",
                       "minimum investment", "min check">>, key |-> "minimum_ticket"],
       [keywords |-> <<"payment date", "wire date", "payment deadline",
                       "payment schedule">>, key |-> "payment_dates"],
       [keywords |-> <<"management fee", "carry", "carried interest">>, key |-> "fees_and_carry"],
       [keywords |-> <<"lock-up", "lockup", "lock up", "holding period">>, key |-> "lockup_period"],
       [keywords |-> <<"closing date", "close date", "final close">>, key |-> "closing_date"],
       [keywords |-> <<"valuation", "company value", "pre-money", "post-money">>, key |-> "valuation"],
       [keywords |-> <<"irr", "internal rate of return">>, key |-> "irr"],
       [keywords |-> <<"allocation", "available allocation">>, key |-> "allocation"],
       [keywords |-> <<"distribution", "distribution schedule">>, key |-> "distributions"],
       [keywords |-> <<"return", "expected return", "target return">>, key |-> "expected_return"],
       [keywords |-> <<"fee", "fees">>, key |-> "fees"],
       [keywords |-> <<"structure", "investment structure">>, key |-> "deal_structure"] >>

STOPWORDS ==
    {"what", "whats", "is", "the", "are", "how", "much", "many",
     "long", "do", "you", "have", "can", "tell", "me", "about",
     "for", "of", "a", "an", "now", "current", "currently", "any"}

\* number of meaningful words a generic fact key keeps
MaxKeyWords == 3

RECURSIVE Meaningful(_)
Meaningful(ws) ==
    IF ws = <<>> THEN <<>>
    ELSE (IF ws[1] \notin STOPWORDS /\ Len(ws[1]) > 2 THEN <<ws[1]>> ELSE <<>>) \o Meaningful(Tail(ws))

\* "" stands for None
derive_fact_key(question) ==
    LET q == Strip(Lower(question))
        hit(i) == \E k \in 1..Len(KEY_MAPPINGS[i].keywords) : Contains(q, KEY_MAPPINGS[i].keywords[k])
        meaningful == Meaningful(Split(PunctToSpace(q)))
    IN IF \E i \in 1..Len(KEY_MAPPINGS) : hit(i)
       THEN KEY_MAPPINGS[CHOOSE i \in 1..Len(KEY_MAPPINGS) : hit(i) /\ \A j \in 1..(i - 1) : ~hit(j)].key
       ELSE IF meaningful # <<>>
            THEN JoinWith(SubSeq(meaningful, 1, IF Len(meaningful) < MaxKeyWords THEN Len(meaningful) ELSE MaxKeyWords), "_")
            ELSE ""

-----------------------------------------------------------------------------
(* Bounds and input sets of the pipeline model                             *)

\* messages stored over all sessions
MaxMsgs == 6

\* LLM and database failures injected in one behaviour
MaxFaults == 1

\* messages the team sends to POST /bot/ask (already stripped by the handler)
Questions ==
    {"Hello",
     "What is the minimum ticket?",
     "It is $30k",
     "What is the fee for Anthropic?"}

\* answers the team gives to a pending question, stored without the pipeline
SuppliedAnswers == {"It is $30k", "Minimum ticket is $25k"}

Texts == Questions \cup SuppliedAnswers

\* investor questions store_with_decomposition is called with: the questions
\* of the pipeline and a short one made of stopwords only
InvestorQuestions == (Questions \ {"Hello"}) \cup {"How much is it?"}

\* deal_id of the URL: /bot/ask (none) or /bot/ask/<deal_id>
DealArgs == {NoDeal, 1}

\* the id uuid4() returns to a client that sends none, and the ids a client
\* sends: the one it was given
UuidPool == {"s1"}

ClientSessionIds == {"s1"}

AllSessionIds == ClientSessionIds \cup UuidPool

\* texts the answer-mode LLM call may return
AnswerTexts ==
    {"The minimum ticket is $25k.",
     "We don't have that in our knowledge base."}

GreetingReply == "Hello! How can I help?"

InfoRequestText == "1. What is the value? Once you share these, I will draft the reply right away."

DraftText == "Thank you for your question. Best,"

ClarifierLlmText == "Which deal do you mean?"

\* rows of odp_deal_document_chunks joined with their document, with the
\* cosine similarity (in percent) they have to a question that matches them
DocumentChunks ==
    << [chunk_id |-> 1, deal_id |-> 1, doc_name |-> "spacex.pdf", page_number |-> 3,
        similarity |-> 90, chunk_text |-> "Minimum ticket: $50,000"],
       [chunk_id |-> 2, deal_id |-> 2, doc_name |-> "anthropic.pdf", page_number |-> 0,
        similarity |-> 60, chunk_text |-> "Management fee: 2%"] >>

\* a chunk whose embedding was never computed
UnembeddedChunk ==
    [chunk_id |-> 3, deal_id |-> 1, doc_name |-> "draft.pdf", page_number |-> 1,
     similarity |-> 95, chunk_text |-> "Minimum ticket: $10,000"]

\* odp_deal_document_chunks: each row with whether its embedding is non-null
ChunkTable ==
    [i \in 1..Len(DocumentChunks) |-> [hit |-> DocumentChunks[i], embedding |-> TRUE]]
    \o <<[hit |-> UnembeddedChunk, embedding |-> FALSE]>>

AllProcs == {1, 2}

\* The text analysis of each message the model sends, computed once: the
\* pipeline reads these tables where the code calls the function
is_greeting_memo == [q \in Questions |-> is_greeting(q)]

is_new_question_memo == [q \in Questions |-> is_new_question(q)]

has_missing_info_signal_memo == [a \in AnswerTexts |-> has_missing_info_signal(a)]

needs_clarification_memo ==
    [q \in Questions, has_deal_context \in BOOLEAN |->
        needs_clarification(q, 0, "", has_deal_context)]

is_deal_specific_memo == [q \in Questions |-> is_deal_specific(q)]

generate_clarifying_question_memo ==
    [q \in Questions, names_ok \in BOOLEAN |->
        generate_clarifying_question(q, get_all_deal_names(names_ok), ClarifierLlmText)]

detect_deal_in_text_memo ==
    [q \in Questions, deals_ok \in BOOLEAN |->
        detect_deal_in_text(q, get_all_active_deals(deals_ok))]

-----------------------------------------------------------------------------
(* Conversation store: ConversationService                                 *)

VARIABLES
    conversations,   \* session_id of every row of odp_conversations, in id order
    messages,        \* session_id -> rows of odp_conversation_messages, oldest first
    dynamic_facts,   \* rows of odp_deal_dynamic_facts in id order
    pc,              \* per worker: position inside answer_question
    req,             \* per worker: locals of the request being served
    faults,          \* failures injected so far
    fact_calls,      \* direct calls of the fact store, with what each returned
    prompt,          \* the answer-mode user prompt under construction
    call,            \* the last direct call of a helper, with its arguments and result
    email_threads    \* rows of odp_deal_email_threads in id order

vars == <<conversations, messages, dynamic_facts, pc, req, faults, fact_calls, prompt, call,
          email_threads>>

BOT_LAST_CONVERSATION_MESSAGES_LIMIT == 10

\* the session ids of a table of conversations
IdsOf(rows) == {rows[i] : i \in 1..Len(rows)}

SessionIds == IdsOf(conversations)

\* a get_or_create that inserts without looking the session up
create_conversation_without_lookup(rows, session_id, new_id, db_ok) ==
    LET sid == IF session_id # "" THEN session_id ELSE new_id
    IN IF db_ok /\ sid \notin IdsOf(rows)
       THEN [rows |-> Append(rows, sid), session_id |-> sid, raised |-> FALSE]
       ELSE [rows |-> rows, session_id |-> "", raised |-> TRUE]

\* the table after the call, the session it returns, and whether it raised;
\* new_id is the uuid4() drawn when the client sends no session_id; the lookup
\* and the commit raise when the database fails, and the insert raises when
\* the unique index on session_id rejects it
get_or_create_conversation(rows, session_id, new_id, db_ok) ==
    LET sid == IF session_id # "" THEN session_id ELSE new_id
    IN IF db_ok /\ session_id # "" /\ session_id \in IdsOf(rows)
       THEN [rows |-> rows, session_id |-> session_id, raised |-> FALSE]
       ELSE IF db_ok /\ sid \notin IdsOf(rows)
            THEN [rows |-> Append(rows, sid), session_id |-> sid, raised |-> FALSE]
            ELSE [rows |-> rows, session_id |-> "", raised |-> TRUE]

\* message_metadata; "" is a key the dict does not carry, and sources is <<>>
\* both for no "sources" key and for an empty list
NoMeta ==
    [type |-> "", investor_question |-> "", original_question |-> "",
     trigger |-> "", confidence |-> "", sources |-> <<>>]

Meta(type, investor_question, original_question, trigger, confidence) ==
    [type |-> type, investor_question |-> investor_question,
     original_question |-> original_question, trigger |-> trigger,
     confidence |-> confidence, sources |-> <<>>]

WithSources(metadata, sources) == [metadata EXCEPT !.sources = sources]

Message(role, content, deal_id, metadata) ==
    [role |-> role, content |-> content, deal_id |-> deal_id, metadata |-> metadata]

\* the rows add_message leaves in the table; db_ok = FALSE: commit raised,
\* rolled back, None returned to a caller that does not look at it
\* an append that overwrites the newest row when it has the same role
add_message_last_writer_wins(rows, role, content, deal_id, metadata, db_ok) ==
    IF ~db_ok THEN rows
    ELSE IF rows # <<>> /\ rows[Len(rows)].role = role
         THEN [rows EXCEPT ![Len(rows)] = Message(role, content, deal_id, metadata)]
         ELSE Append(rows, Message(role, content, deal_id, metadata))

add_message(rows, role, content, deal_id, metadata, db_ok) ==
    IF db_ok THEN Append(rows, Message(role, content, deal_id, metadata)) ELSE rows

LastN(seq, n) == IF Len(seq) > n THEN SubSeq(seq, Len(seq) - n + 1, Len(seq)) ELSE seq

\* a history load that answers from the rows whatever the query did
conversation_history_despite_error(session_id, limit, db_ok) ==
    IF session_id \in SessionIds THEN LastN(messages[session_id], limit) ELSE <<>>

\* the limit newest messages, oldest first; [] for an unknown session or on error
get_conversation_history(session_id, limit, db_ok) ==
    IF db_ok /\ session_id \in SessionIds THEN LastN(messages[session_id], limit) ELSE <<>>

\* a clear that deletes the conversation row and leaves its messages
clear_conversation_keeping_messages(session_id, db_ok) ==
    IF db_ok /\ session_id \in SessionIds
    THEN [conversations |-> SelectSeq(conversations, LAMBDA x : x # session_id),
          messages |-> messages, cleared |-> TRUE]
    ELSE [conversations |-> conversations, messages |-> messages, cleared |-> FALSE]

\* the two tables after clear_conversation and what it returns; an unknown
\* session or a database error (rolled back) changes nothing and gives False
clear_conversation(session_id, db_ok) ==
    IF db_ok /\ session_id \in SessionIds
    THEN [conversations |-> SelectSeq(conversations, LAMBDA x : x # session_id),
          messages |-> [messages EXCEPT ![session_id] = <<>>], cleared |-> TRUE]
    ELSE [conversations |-> conversations, messages |-> messages, cleared |-> FALSE]

-----------------------------------------------------------------------------
(* Orchestrator helpers: QueryService private methods                      *)

\* index of the newest assistant message of a history, 0 when there is none
LastAssistant(history) ==
    IF \E i \in 1..Len(history) : history[i].role = "assistant"
    THEN CHOOSE i \in 1..Len(history) :
            /\ history[i].role = "assistant"
            /\ \A j \in (i + 1)..Len(history) : history[j].role # "assistant"
    ELSE 0

\* a lookup that takes the newest needs_info message of the whole history
pending_from_any_needs_info(history) ==
    IF \E i \in 1..Len(history) :
          history[i].role = "assistant" /\ history[i].metadata.type = "needs_info"
    THEN history[CHOOSE i \in 1..Len(history) :
            /\ history[i].role = "assistant" /\ history[i].metadata.type = "needs_info"
            /\ \A j \in (i + 1)..Len(history) :
                   ~(history[j].role = "assistant" /\ history[j].metadata.type = "needs_info")
         ].metadata.investor_question
    ELSE ""

\* the pending investor question, "" for None
get_pending_question(history) ==
    LET i == LastAssistant(history)
    IN IF i = 0 THEN ""
       ELSE IF history[i].metadata.type = "needs_info"
            THEN history[i].metadata.investor_question
            ELSE ""

\* a scan that returns the deal of the oldest message that has one
get_deal_oldest_first(history) ==
    IF \E i \in 1..Len(history) : history[i].deal_id # NoDeal
    THEN history[CHOOSE i \in 1..Len(history) :
            /\ history[i].deal_id # NoDeal
            /\ \A j \in 1..(i - 1) : history[j].deal_id = NoDeal].deal_id
    ELSE NoDeal

get_deal_from_history(history) ==
    IF \E i \in 1..Len(history) : history[i].deal_id # NoDeal
    THEN history[CHOOSE i \in 1..Len(history) :
            /\ history[i].deal_id # NoDeal
            /\ \A j \in (i + 1)..Len(history) : history[j].deal_id = NoDeal].deal_id
    ELSE NoDeal

\* a resolver that trusts the session before the question text
resolve_history_first(deal_id, question, deals_ok, history) ==
    IF deal_id # NoDeal THEN deal_id
    ELSE IF get_deal_from_history(history) # NoDeal
         THEN get_deal_from_history(history)
         ELSE detect_deal_in_text_memo[question, deals_ok]

\* step 4: URL argument, then question text, then history
resolve_active_deal(deal_id, question, deals_ok, history) ==
    IF deal_id # NoDeal THEN deal_id
    ELSE IF detect_deal_in_text_memo[question, deals_ok] # NoDeal
         THEN detect_deal_in_text_memo[question, deals_ok]
         ELSE get_deal_from_history(history)

\* the step 7 guard with its "not" lost
supplied_when_new_question(pending, active_deal_id, question) ==
    pending # "" /\ active_deal_id # NoDeal /\ is_new_question_memo[question]

\* the step 7 guard without the new-question test
supplied_whenever_pending(pending, active_deal_id, question) ==
    pending # "" /\ active_deal_id # NoDeal

\* step 7 guard
is_supplied_answer(pending, active_deal_id, question) ==
    pending # "" /\ active_deal_id # NoDeal /\ ~is_new_question_memo[question]

\* a question longer than this many characters is the investor question itself
SubstantiveLen == 20

\* a resolver that takes the newest clarification message of the whole history
resolve_scanning_backwards(history, current_question) ==
    LET clarifications ==
            {k \in 1..Len(history) :
                /\ history[k].role = "assistant"
                /\ history[k].metadata.type = "clarification"
                /\ history[k].metadata.original_question # ""}
        substantive(k) == history[k].role = "user" /\ Len(Strip(history[k].content)) > SubstantiveLen
    IN IF current_question # "" /\ Len(Strip(current_question)) > SubstantiveLen
       THEN Strip(current_question)
       ELSE IF clarifications # {}
            THEN history[CHOOSE k \in clarifications :
                            \A j \in clarifications : j <= k].metadata.original_question
            ELSE IF \E k \in 1..Len(history) : substantive(k)
                 THEN Strip(history[CHOOSE k \in 1..Len(history) :
                                substantive(k) /\ \A j \in 1..(k - 1) : ~substantive(j)].content)
                 ELSE current_question

resolve_investor_question(history, current_question) ==
    LET i == LastAssistant(history)
        substantive(k) == history[k].role = "user" /\ Len(Strip(history[k].content)) > SubstantiveLen
    IN IF current_question # "" /\ Len(Strip(current_question)) > SubstantiveLen
       THEN Strip(current_question)
       ELSE IF i # 0 /\ history[i].metadata.type = "clarification"
                     /\ history[i].metadata.original_question # ""
            THEN history[i].metadata.original_question
            ELSE IF \E k \in 1..Len(history) : substantive(k)
                 THEN Strip(history[CHOOSE k \in 1..Len(history) :
                                substantive(k) /\ \A j \in 1..(k - 1) : ~substantive(j)].content)
                 ELSE current_question

-----------------------------------------------------------------------------
(* Query rewriter gate: QueryEnhancementService                            *)

VAGUE_WORDS ==
    {"it", "that", "this", "these", "those", "they", "their", "them",
     "the company", "the deal", "the investment", "same", "also", "too"}

COMPANY_NAMES_SHORT == {"spacex", "anthropic", "tesla", "openai", "google", "amazon"}

COMPANY_NAMES_METRIC == {"spacex", "anthropic", "tesla", "openai"}

METRIC_ONLY_PATTERNS ==
    {"revenue", "valuation", "profit", "growth", "ebitda", "customers", "users", "employees"}

\* fewer words than this and no company name: the question is vague
ShortQuestionWords == 4

\* at most this many words, a metric and no company name: the question is vague
MetricQuestionWords == 5

needs_enhancement(question) ==
    LET question_lower == Lower(question)
        words == Split(question)
    IN \/ \E word \in VAGUE_WORDS : Contains(question_lower, word)
       \/ /\ Len(words) < ShortQuestionWords
          /\ ~\E company \in COMPANY_NAMES_SHORT : Contains(question_lower, company)
       \/ /\ Len(words) <= MetricQuestionWords
          /\ \E metric \in METRIC_ONLY_PATTERNS : Contains(question_lower, metric)
          /\ ~\E company \in COMPANY_NAMES_METRIC : Contains(question_lower, company)

\* history shorter than this is never used for a rewrite
MinRewriteHistory == 2

\* TRUE when enhance_query reaches its LLM call
needs_enhancement_memo == [q \in Questions |-> needs_enhancement(q)]

rewrite_calls_llm(current_question, conversation_history) ==
    Len(conversation_history) >= MinRewriteHistory /\ needs_enhancement_memo[current_question]

-----------------------------------------------------------------------------
(* Dynamic KB: DealContextService.store_dynamic_kb,                        *)
(* store_dynamic_kb_with_decomposition, search_dynamic_kb                  *)

FactRow(deal_id, question, answer, fact_key, fact_value, embedding, approval_status) ==
    [deal_id |-> deal_id, question |-> question, answer |-> answer,
     fact_key |-> fact_key, fact_value |-> fact_value,
     embedding |-> embedding, approval_status |-> approval_status]

\* a decomposition that keeps the facts and drops the full Q&A
decomposition_without_full_row(deal_id, investor_question, user_answer, name_ok) ==
    LET atomic_facts == extract_atomic_facts(investor_question, user_answer,
                                             get_deal_name(deal_id, name_ok))
        fact_key == derive_fact_key(investor_question)
    IN IF atomic_facts # <<>>
       THEN [i \in 1..Len(atomic_facts) |->
                FactRow(deal_id, atomic_facts[i][1], atomic_facts[i][2], "", "", TRUE, "approved")]
       ELSE IF fact_key # ""
            THEN <<FactRow(deal_id, investor_question, user_answer, fact_key,
                           Strip(user_answer), TRUE, "approved")>>
            ELSE <<>>

\* the rows store_with_decomposition tries to insert, in order: the full Q&A,
\* then one row per atomic fact, or else the fallback fact_key row
decomposition_writes(deal_id, investor_question, user_answer, name_ok) ==
    LET atomic_facts == extract_atomic_facts(investor_question, user_answer,
                                             get_deal_name(deal_id, name_ok))
        fact_key == derive_fact_key(investor_question)
        full == FactRow(deal_id, investor_question, user_answer, "", "", TRUE, "approved")
    IN <<full>> \o
       (IF atomic_facts # <<>>
        THEN [i \in 1..Len(atomic_facts) |->
                 FactRow(deal_id, atomic_facts[i][1], atomic_facts[i][2], "", "", TRUE, "approved")]
        ELSE IF fact_key # ""
             THEN <<FactRow(deal_id, investor_question, user_answer, fact_key,
                            Strip(user_answer), TRUE, "approved")>>
             ELSE <<>>)

decomposition_writes_memo ==
    [deal_id \in DealIds, investor_question \in Questions \cup InvestorQuestions,
     user_answer \in Texts, name_ok \in BOOLEAN |->
        decomposition_writes(deal_id, investor_question, user_answer, name_ok)]

RECURSIVE Committed(_, _, _)
Committed(writes, oks, i) ==
    IF i > Len(writes) THEN <<>>
    ELSE (IF oks[i] THEN <<writes[i]>> ELSE <<>>) \o Committed(writes, oks, i + 1)

\* a store that writes all rows in one transaction
store_in_one_transaction(rows, deal_id, investor_question, user_answer, name_ok, oks) ==
    IF \A i \in 1..Len(oks) : oks[i]
    THEN rows \o decomposition_writes_memo[deal_id, investor_question, user_answer, name_ok]
    ELSE rows

\* every write is its own try / commit / rollback: oks[i] = FALSE loses row i only
store_dynamic_kb_with_decomposition(rows, deal_id, investor_question, user_answer, name_ok, oks) ==
    rows \o Committed(decomposition_writes_memo[deal_id, investor_question, user_answer, name_ok],
                      oks, 1)

\* a similarity pass that searches every deal whatever deal it is given
qa_candidates_any_deal(rows, deal_id) ==
    {i \in 1..Len(rows) :
        /\ rows[i].approval_status = "approved"
        /\ rows[i].embedding
        /\ rows[i].question # ""}

\* rows the similarity pass may return for a search scoped to deal_id
qa_candidates(rows, deal_id) ==
    {i \in 1..Len(rows) :
        /\ rows[i].approval_status = "approved"
        /\ rows[i].embedding
        /\ rows[i].question # ""
        /\ (deal_id # NoDeal => rows[i].deal_id = deal_id)}

\* a key-value pass that does not look at approval_status
fact_rows_any_status(rows, deal_id) ==
    {i \in 1..Len(rows) :
        /\ rows[i].fact_key # ""
        /\ rows[i].fact_value # ""
        /\ (deal_id # NoDeal => rows[i].deal_id = deal_id)}

\* rows the key-value pass returns
fact_rows(rows, deal_id) ==
    {i \in 1..Len(rows) :
        /\ rows[i].approval_status = "approved"
        /\ rows[i].fact_key # ""
        /\ rows[i].fact_value # ""
        /\ (deal_id # NoDeal => rows[i].deal_id = deal_id)}

\* LIMIT :top_k of the similarity pass as answer_question calls it
DynamicTopK == 5

\* the sets of rows the similarity pass can return: the rows whose similarity
\* to the question reaches the threshold, as the embedding model decides
qa_results(rows, deal_id) ==
    {hits \in SUBSET qa_candidates(rows, deal_id) : Cardinality(hits) <= DynamicTopK}

-----------------------------------------------------------------------------
(* Static KB: SearchService.search_similar_chunks, ContextBuilder          *)

\* lowest similarity (percent) a hit may have
BOT_SIMILARITY_THRESHOLD == 50

BOT_DEFAULT_TOP_K == 5

RECURSIVE SubsequencesOf(_)
SubsequencesOf(seq) ==
    IF seq = <<>> THEN {<<>>}
    ELSE LET rest == SubsequencesOf(Tail(seq))
         IN rest \cup {<<Head(seq)>> \o r : r \in rest}

HasEmbedding(row) == row.embedding

HitOf(row) == row.hit

RECURSIVE MapHits(_)
MapHits(rows) == IF rows = <<>> THEN <<>> ELSE <<HitOf(Head(rows))>> \o MapHits(Tail(rows))

\* a search whose SQL lacks "embedding IS NOT NULL"
search_chunks_without_embedding_filter(table, deal_id) ==
    {hits \in SubsequencesOf(MapHits(table)) :
        /\ Len(hits) <= BOT_DEFAULT_TOP_K
        /\ \A i \in 1..Len(hits) :
              /\ hits[i].similarity >= BOT_SIMILARITY_THRESHOLD
              /\ (deal_id # NoDeal => hits[i].deal_id = deal_id)}

\* the hit lists a search of the chunk table scoped to deal_id can return, best
\* match first
search_chunk_table(table, deal_id) ==
    {hits \in SubsequencesOf(MapHits(SelectSeq(table, HasEmbedding))) :
        /\ Len(hits) <= BOT_DEFAULT_TOP_K
        /\ \A i \in 1..Len(hits) :
              /\ hits[i].similarity >= BOT_SIMILARITY_THRESHOLD
              /\ (deal_id # NoDeal => hits[i].deal_id = deal_id)}

search_similar_chunks(deal_id) == search_chunk_table(ChunkTable, deal_id)

CONFIDENCE_HIGH_THRESHOLD == 85

CONFIDENCE_MEDIUM_THRESHOLD == 70

RECURSIVE SumSimilarity(_)
SumSimilarity(chunks) ==
    IF chunks = <<>> THEN 0 ELSE Head(chunks).similarity + SumSimilarity(Tail(chunks))

\* avg >= t  written as  sum >= t * n
calculate_confidence(chunks) ==
    IF chunks = <<>> THEN "low"
    ELSE IF SumSimilarity(chunks) >= CONFIDENCE_HIGH_THRESHOLD * Len(chunks) THEN "high"
    ELSE IF SumSimilarity(chunks) >= CONFIDENCE_MEDIUM_THRESHOLD * Len(chunks) THEN "medium"
    ELSE "low"

\* f"{similarity:.2%}" of a similarity held in whole percent
PercentText(similarity) == ToString(similarity) \o ".00%"

PreviewLen == 200

\* one source per document, in hit order; page_number 0: no "page_number" key
RECURSIVE SourcesFrom(_, _)
SourcesFrom(chunks, seen_docs) ==
    IF chunks = <<>> THEN <<>>
    ELSE LET chunk == Head(chunks)
         IN IF chunk.doc_name \in seen_docs
            THEN SourcesFrom(Tail(chunks), seen_docs)
            ELSE <<[document_name |-> chunk.doc_name,
                    relevance |-> PercentText(chunk.similarity),
                    preview |-> IF Len(chunk.chunk_text) > PreviewLen
                                THEN SubSeq(chunk.chunk_text, 1, PreviewLen) \o "..."
                                ELSE chunk.chunk_text,
                    page_number |-> chunk.page_number]>>
                 \o SourcesFrom(Tail(chunks), seen_docs \cup {chunk.doc_name})

extract_sources(chunks) == SourcesFrom(chunks, {})

extract_sources_memo ==
    [chunks \in SubsequencesOf(DocumentChunks) |-> extract_sources(chunks)]

\* step 10: adopt the deal of the first hit that carries one
infer_deal_from_chunks(active_deal_id, chunks) ==
    IF chunks # <<>> /\ active_deal_id = NoDeal
       /\ \E i \in 1..Len(chunks) : chunks[i].deal_id # NoDeal
    THEN chunks[CHOOSE i \in 1..Len(chunks) :
            /\ chunks[i].deal_id # NoDeal
            /\ \A j \in 1..(i - 1) : chunks[j].deal_id = NoDeal].deal_id
    ELSE active_deal_id

-----------------------------------------------------------------------------
(* Pipeline orchestrator: QueryService.answer_question                     *)

NoPrompt == [built |-> FALSE]

NoCall == [op |-> ""]

NoResponse ==
    [response_type |-> "", fields |-> {}, text |-> "",
     active_deal_id |-> NoDeal, show_draft_button |-> FALSE]

Response(response_type, fields, text, active_deal_id, show_draft_button) ==
    [response_type |-> response_type, fields |-> fields, text |-> text,
     active_deal_id |-> active_deal_id, show_draft_button |-> show_draft_button]

\* locals of a request; llm_calls, writes, stored, store_args and failed record
\* what the request did: the LLM modes it called, its add_message calls (and
\* whether each one committed), the fact rows it committed, the arguments of
\* its store_with_decomposition call, and the calls that raised inside it
IdleReq ==
    [question |-> "", deal_id |-> NoDeal, session_id |-> "",
     history |-> <<>>, all_deals |-> <<>>, active_deal_id |-> NoDeal,
     chunks |-> <<>>, dynamic_rows |-> {}, confidence |-> "",
     branch |-> "", llm_calls |-> <<>>, writes |-> <<>>,
     stored |-> <<>>, store_args |-> <<>>, store_oks |-> <<>>, failed |-> {},
     response |-> NoResponse, error |-> ""]

RECURSIVE TotalLen(_)
TotalLen(S) ==
    IF S = {} THEN 0
    ELSE LET x == CHOOSE y \in S : TRUE IN Len(messages[x]) + TotalLen(S \ {x})

TotalMsgs == TotalLen(AllSessionIds)

Cost(flags) == Cardinality({i \in 1..Len(flags) : ~flags[i]})

CanFault(flags) == faults + Cost(flags) <= MaxFaults

\* the row stores of one decomposition that fail count as one failure: the
\* database is unreachable for some of the consecutive commits
StoreCost(oks) == IF \A i \in 1..Len(oks) : oks[i] THEN 0 ELSE 1

\* the calls, out of names, whose flag says they raised
Failed(names, flags) == {names[i] : i \in {j \in 1..Len(flags) : ~flags[j]}}

\* the helper calls of one step that may raise within the failure budget
Failing(helpers) == {S \in SUBSET helpers : faults + Cardinality(S) <= MaxFaults}

\* helper calls of steps 9-10 that swallow their own errors
SearchHelpers == {"dynamic_qa", "dynamic_facts", "static_search"}

\* helper calls of the supplied-answer subflow between the store and the draft
DraftHelpers == SearchHelpers \cup {"deal_context", "tone_rules"}

\* the except branch of answer_question: rollback, raise QUERY_FAILED
QueryFailed(r, branch) == [r EXCEPT !.branch = branch, !.error = "QUERY_FAILED"]

Init ==
    /\ conversations = <<>>
    /\ messages = [sid \in AllSessionIds |-> <<>>]
    /\ dynamic_facts = <<>>
    /\ pc = [p \in AllProcs |-> "idle"]
    /\ req = [p \in AllProcs |-> IdleReq]
    /\ faults = 0
    /\ fact_calls = <<>>
    /\ prompt = NoPrompt
    /\ call = NoCall
    /\ email_threads = <<>>

\* step 1: get_or_create_conversation
AskSession(p, question, deal_id, session_id, db_ok) ==
    /\ pc[p] = "idle"
    /\ TotalMsgs + 2 <= MaxMsgs
    /\ CanFault(<<db_ok>>)
    /\ faults' = faults + Cost(<<db_ok>>)
    /\ LET r == [IdleReq EXCEPT !.question = question, !.deal_id = deal_id]
       IN \E new_id \in (IF session_id # "" THEN {session_id} ELSE UuidPool \ SessionIds) :
                LET conversation == get_or_create_conversation(conversations, session_id,
                                                               new_id, db_ok)
                IN /\ conversations' = conversation.rows
                   /\ IF ~conversation.raised
                      THEN /\ req' = [req EXCEPT ![p] =
                                        [r EXCEPT !.session_id = conversation.session_id]]
                           /\ pc' = [pc EXCEPT ![p] = "history"]
                      ELSE /\ req' = [req EXCEPT ![p] =
                                        QueryFailed([r EXCEPT !.failed = {"session"}], "session")]
                           /\ pc' = [pc EXCEPT ![p] = "done"]
    /\ UNCHANGED <<messages, dynamic_facts>>
    /\ UNCHANGED <<fact_calls, prompt, email_threads, call>>

\* steps 2-4: history, active deals, deal detection
AskLoad(p, history_ok, deals_ok) ==
    /\ pc[p] = "history"
    /\ CanFault(<<history_ok, deals_ok>>)
    /\ faults' = faults + Cost(<<history_ok, deals_ok>>)
    /\ LET r == req[p]
           history == get_conversation_history(r.session_id,
                          BOT_LAST_CONVERSATION_MESSAGES_LIMIT, history_ok)
           all_deals == get_all_active_deals(deals_ok)
       IN req' = [req EXCEPT ![p] =
                    [r EXCEPT !.history = history, !.all_deals = all_deals,
                              !.failed = Failed(<<"history", "deals">>,
                                                <<history_ok, deals_ok>>),
                              !.active_deal_id =
                                  resolve_active_deal(r.deal_id, r.question, deals_ok, history)]]
    /\ pc' = [pc EXCEPT ![p] = "user"]
    /\ UNCHANGED <<conversations, messages, dynamic_facts>>
    /\ UNCHANGED <<fact_calls, prompt, email_threads, call>>

\* step 5: persist the user message
AskPersistUser(p, db_ok) ==
    /\ pc[p] = "user"
    /\ CanFault(<<db_ok>>)
    /\ faults' = faults + Cost(<<db_ok>>)
    /\ LET r == req[p]
           ok == db_ok /\ r.session_id \in SessionIds
           rows == add_message(messages[r.session_id], "user", r.question,
                               r.active_deal_id, NoMeta, ok)
           write == [message |-> Message("user", r.question, r.active_deal_id, NoMeta),
                     committed |-> ok]
       IN /\ messages' = [messages EXCEPT ![r.session_id] = rows]
          /\ req' = [req EXCEPT ![p] =
                       [r EXCEPT !.writes = <<write>>,
                                 !.failed = @ \cup Failed(<<"user_message">>, <<db_ok>>)]]
    /\ pc' = [pc EXCEPT ![p] = "route"]
    /\ UNCHANGED <<conversations, dynamic_facts>>
    /\ UNCHANGED <<fact_calls, prompt, email_threads, call>>

\* a reply that is appended a second time after its commit
reply_with_retry(p, r, content, deal_id, metadata, db_ok, response) ==
    LET ok == db_ok /\ r.session_id \in SessionIds
        once == add_message(messages[r.session_id], "assistant", content, deal_id, metadata, ok)
        rows == add_message(once, "assistant", content, deal_id, metadata, ok)
        write == [message |-> Message("assistant", content, deal_id, metadata),
                  committed |-> ok]
    IN /\ messages' = [messages EXCEPT ![r.session_id] = rows]
       /\ req' = [req EXCEPT ![p] =
                    [r EXCEPT !.writes = Append(r.writes, write), !.response = response,
                              !.failed = @ \cup Failed(<<"assistant_message">>, <<db_ok>>)]]
       /\ pc' = [pc EXCEPT ![p] = "done"]

\* one assistant append with the bookkeeping of the request
Reply(p, r, content, deal_id, metadata, db_ok, response) ==
    LET ok == db_ok /\ r.session_id \in SessionIds
        rows == add_message(messages[r.session_id], "assistant", content, deal_id, metadata, ok)
        write == [message |-> Message("assistant", content, deal_id, metadata),
                  committed |-> ok]
    IN /\ messages' = [messages EXCEPT ![r.session_id] = rows]
       /\ req' = [req EXCEPT ![p] =
                    [r EXCEPT !.writes = Append(r.writes, write), !.response = response,
                              !.failed = @ \cup Failed(<<"assistant_message">>, <<db_ok>>)]]
       /\ pc' = [pc EXCEPT ![p] = "done"]

\* an except branch that tells the session about the failure before raising
raise_after_apology(p, r) ==
    /\ req' = [req EXCEPT ![p] =
                 QueryFailed([r EXCEPT !.writes =
                     Append(r.writes,
                            [message |-> Message("assistant", "Sorry, something went wrong.",
                                                 r.active_deal_id, NoMeta),
                             committed |-> TRUE])], r.branch)]
    /\ pc' = [pc EXCEPT ![p] = "done"]
    /\ messages' = [messages EXCEPT ![r.session_id] =
                       Append(@, Message("assistant", "Sorry, something went wrong.",
                                         r.active_deal_id, NoMeta))]

Raise(p, r) ==
    /\ req' = [req EXCEPT ![p] = QueryFailed(r, r.branch)]
    /\ pc' = [pc EXCEPT ![p] = "done"]
    /\ UNCHANGED messages

\* step 6: greeting short-circuit
AskGreeting(p, tone_ok, llm_ok, db_ok) ==
    /\ pc[p] = "route"
    /\ CanFault(<<tone_ok, llm_ok, db_ok>>)
    /\ is_greeting_memo[req[p].question]
    /\ faults' = faults + Cost(<<tone_ok, llm_ok, db_ok>>)
    /\ LET r == [req[p] EXCEPT !.branch = "greeting",
                               !.failed = @ \cup Failed(<<"tone_rules", "greeting_llm">>,
                                                        <<tone_ok, llm_ok>>),
                               !.llm_calls = Append(req[p].llm_calls, "greeting")]
       IN IF llm_ok
          THEN Reply(p, r, Strip(GreetingReply), r.active_deal_id,
                     Meta("greeting", "", "", "", ""), db_ok,
                     Response("answer",
                              {"response_type", "answer", "sources", "chunks_found", "confidence",
                               "session_id", "active_deal_id", "show_draft_button"},
                              Strip(GreetingReply), r.active_deal_id, FALSE))
          ELSE db_ok /\ Raise(p, r)
    /\ UNCHANGED <<conversations, dynamic_facts>>
    /\ UNCHANGED <<fact_calls, prompt, email_threads, call>>

\* step 7: the message answers the pending needs_info (_handle_user_supplied_answer)
AskSuppliedAnswer(p, name_ok, oks, failing, llm_ok, db_ok) ==
    /\ pc[p] = "route"
    /\ faults + Cost(<<name_ok, llm_ok, db_ok>>) + StoreCost(oks) + Cardinality(failing)
           <= MaxFaults
    /\ is_supplied_answer(get_pending_question(req[p].history),
                          req[p].active_deal_id, req[p].question)
    /\ ~is_greeting_memo[req[p].question]
    /\ LET r0 == req[p]
           pending == get_pending_question(r0.history)
           writes == decomposition_writes_memo[r0.active_deal_id, pending, r0.question, name_ok]
       IN /\ Len(oks) = Len(writes)
          /\ faults' = faults + Cost(<<name_ok, llm_ok, db_ok>>) + StoreCost(oks)
                               + Cardinality(failing)
          /\ dynamic_facts' = store_dynamic_kb_with_decomposition(dynamic_facts,
                                  r0.active_deal_id, pending, r0.question, name_ok, oks)
          /\ LET r == [r0 EXCEPT !.branch = "supplied_answer",
                                 !.stored = Committed(writes, oks, 1),
                                 !.store_args = <<r0.active_deal_id, pending, r0.question>>,
                                 !.store_oks = oks,
                                 !.failed = @ \cup failing
                                     \cup Failed(<<"deal_name", "draft_llm">>, <<name_ok, llm_ok>>)
                                     \cup Failed([i \in 1..Len(oks) |-> "fact_store"], oks),
                                 !.llm_calls = Append(r0.llm_calls, "draft")]
             IN IF llm_ok
                THEN Reply(p, r, DraftText, r.active_deal_id,
                           Meta("draft_email", "", "", "user_supplied_answer", ""), db_ok,
                           Response("draft_email",
                                    {"response_type", "draft_email", "investor_question",
                                     "session_id", "active_deal_id", "show_draft_button"},
                                    DraftText, r.active_deal_id, FALSE))
                ELSE db_ok /\ Raise(p, r)
    /\ UNCHANGED conversations
    /\ UNCHANGED <<fact_calls, prompt, email_threads, call>>

\* steps 8-10: query rewrite, Dynamic KB search, Static KB search
AskSearch(p, llm_ok, failing, hits, chunks) ==
    /\ pc[p] = "route"
    /\ faults + Cost(<<llm_ok>>) + Cardinality(failing) <= MaxFaults
    /\ ~is_supplied_answer(get_pending_question(req[p].history),
                           req[p].active_deal_id, req[p].question)
    /\ ~is_greeting_memo[req[p].question]
    /\ faults' = faults + Cost(<<llm_ok>>) + Cardinality(failing)
    /\ LET r0 == req[p]
           rewrite == rewrite_calls_llm(r0.question, r0.history)
           r == [r0 EXCEPT !.llm_calls = IF rewrite THEN Append(r0.llm_calls, "rewrite")
                                         ELSE r0.llm_calls,
                           !.failed = @ \cup failing \cup Failed(<<"rewrite_llm">>, <<llm_ok>>)]
       IN /\ (~rewrite => llm_ok)
          /\ IF llm_ok
             THEN /\ hits \in (IF "dynamic_qa" \in failing THEN {{}}
                               ELSE qa_results(dynamic_facts, r.active_deal_id))
                  /\ chunks \in (IF "static_search" \in failing THEN {<<>>}
                                 ELSE search_similar_chunks(r.active_deal_id))
                  /\ req' = [req EXCEPT ![p] =
                               [r EXCEPT !.dynamic_rows =
                                             hits \cup (IF "dynamic_facts" \in failing THEN {}
                                                        ELSE fact_rows(dynamic_facts,
                                                                       r.active_deal_id)),
                                         !.chunks = chunks,
                                         !.active_deal_id =
                                             infer_deal_from_chunks(r.active_deal_id, chunks),
                                         !.confidence = calculate_confidence(chunks)]]
                  /\ pc' = [pc EXCEPT ![p] = "classify"]
             ELSE /\ hits = {} /\ chunks = <<>> /\ failing = {}
                  /\ req' = [req EXCEPT ![p] = QueryFailed(r, "rewrite")]
                  /\ pc' = [pc EXCEPT ![p] = "done"]
    /\ UNCHANGED <<conversations, messages, dynamic_facts>>
    /\ UNCHANGED <<fact_calls, prompt, email_threads, call>>

\* step 11: ask which deal
AskClarify(p, docs_ok, names_ok, llm_ok, db_ok) ==
    /\ pc[p] = "classify"
    /\ CanFault(<<docs_ok, names_ok, llm_ok, db_ok>>)
    /\ needs_clarification_memo[req[p].question, req[p].active_deal_id # NoDeal]
    /\ faults' = faults + Cost(<<docs_ok, names_ok, llm_ok, db_ok>>)
    /\ LET fast == is_deal_specific_memo[req[p].question]
           r == [req[p] EXCEPT !.branch = "clarification",
                               !.failed = @ \cup Failed(<<"doc_names", "deals", "clarify_llm">>,
                                                        <<docs_ok, names_ok, llm_ok>>),
                               !.llm_calls = IF fast THEN req[p].llm_calls
                                             ELSE Append(req[p].llm_calls, "clarify")]
           clarifying_q == generate_clarifying_question_memo[r.question, names_ok]
       IN /\ (fast => llm_ok)
          /\ IF llm_ok
             THEN Reply(p, r, clarifying_q, NoDeal,
                        Meta("clarification", "", r.question, "", ""), db_ok,
                        Response("needs_clarification",
                                 {"response_type", "needs_clarification", "clarifying_question",
                                  "session_id", "show_draft_button"},
                                 clarifying_q, NoDeal, FALSE))
             ELSE db_ok /\ Raise(p, r)
    /\ UNCHANGED <<conversations, dynamic_facts>>
    /\ UNCHANGED <<fact_calls, prompt, email_threads, call>>

\* steps 12-17: answer-mode LLM call, then needs_info or answer
AskAnswer(p, answer, context_ok, tone_ok, llm_ok, info_ok, db_ok) ==
    /\ pc[p] = "classify"
    /\ CanFault(<<context_ok, tone_ok, llm_ok, info_ok, db_ok>>)
    /\ ~needs_clarification_memo[req[p].question, req[p].active_deal_id # NoDeal]
    /\ (req[p].active_deal_id = NoDeal => context_ok)
    /\ faults' = faults + Cost(<<context_ok, tone_ok, llm_ok, info_ok, db_ok>>)
    /\ LET r0 == req[p]
           r1 == [r0 EXCEPT !.llm_calls = Append(r0.llm_calls, "answer"),
                            !.failed = @ \cup Failed(<<"deal_context", "tone_rules",
                                                       "answer_llm", "ask_llm">>,
                                                     <<context_ok, tone_ok, llm_ok, info_ok>>)]
       IN IF ~llm_ok
          THEN info_ok /\ db_ok /\ Raise(p, [r1 EXCEPT !.branch = "answer"])
          ELSE IF has_missing_info_signal_memo[answer]
          THEN LET original_investor_question ==
                       resolve_investor_question(r1.history, r1.question)
                   r == [r1 EXCEPT !.branch = "needs_info",
                                   !.llm_calls = Append(r1.llm_calls, "ask")]
                   full_response == answer \o "\n\n---\n" \o InfoRequestText
               IN IF info_ok
                  THEN Reply(p, r, full_response, r.active_deal_id,
                             WithSources(Meta("needs_info", original_investor_question, "",
                                              "", r.confidence),
                                         extract_sources_memo[r.chunks]),
                             db_ok,
                             Response("needs_info",
                                      {"response_type", "needs_info", "partial_answer",
                                       "info_request", "session_id", "active_deal_id",
                                       "show_draft_button"},
                                      answer, r.active_deal_id, FALSE))
                  ELSE db_ok /\ Raise(p, r)
          ELSE /\ info_ok
               /\ Reply(p, [r1 EXCEPT !.branch = "answer"], answer, r1.active_deal_id,
                        WithSources(Meta("answer", "", "", "", r1.confidence),
                                    extract_sources_memo[r1.chunks]), db_ok,
                        Response("answer",
                                 {"response_type", "answer", "sources", "chunks_found",
                                  "confidence", "session_id", "active_deal_id",
                                  "show_draft_button"},
                                 answer, r1.active_deal_id, TRUE))
    /\ UNCHANGED <<conversations, dynamic_facts>>
    /\ UNCHANGED <<fact_calls, prompt, email_threads, call>>

\* the response (or the QUERY_FAILED error) goes back to the handler
Return(p) ==
    /\ pc[p] = "done"
    /\ pc' = [pc EXCEPT ![p] = "idle"]
    /\ req' = [req EXCEPT ![p] = IdleReq]
    /\ UNCHANGED <<conversations, messages, dynamic_facts, faults, fact_calls, prompt, email_threads, call>>

\* requests served one after another by one worker; the inputs of a step are
\* drawn once the request is at that step
Next ==
    \/ /\ pc[1] = "idle"
       /\ \E question \in Questions, deal_id \in DealArgs,
             session_id \in ClientSessionIds \cup {""}, db_ok \in BOOLEAN :
               AskSession(1, question, deal_id, session_id, db_ok)
    \/ \E history_ok, deals_ok \in BOOLEAN : AskLoad(1, history_ok, deals_ok)
    \/ \E db_ok \in BOOLEAN : AskPersistUser(1, db_ok)
    \/ \E tone_ok, llm_ok, db_ok \in BOOLEAN : AskGreeting(1, tone_ok, llm_ok, db_ok)
    \/ /\ pc[1] = "route"
       /\ \E failing \in Failing(DraftHelpers), name_ok, llm_ok, db_ok \in BOOLEAN, n \in 0..3 :
             \E oks \in [1..n -> BOOLEAN] :
               AskSuppliedAnswer(1, name_ok, oks, failing, llm_ok, db_ok)
    \/ /\ pc[1] = "route"
       /\ \E llm_ok \in BOOLEAN, failing \in Failing(SearchHelpers),
             hits \in {{}} \cup {qa_candidates(dynamic_facts, d) : d \in {NoDeal} \cup DealIds},
             chunks \in SubsequencesOf(DocumentChunks) :
               AskSearch(1, llm_ok, failing, hits, chunks)
    \/ \E docs_ok, names_ok, llm_ok, db_ok \in BOOLEAN :
            AskClarify(1, docs_ok, names_ok, llm_ok, db_ok)
    \/ /\ pc[1] = "classify"
       /\ \E answer \in AnswerTexts, context_ok, tone_ok, llm_ok, info_ok, db_ok \in BOOLEAN :
               AskAnswer(1, answer, context_ok, tone_ok, llm_ok, info_ok, db_ok)
    \/ Return(1)

Spec == Init /\ [][Next]_vars

\* Two requests on one existing session, served by two workers that share the
\* database and no lock: each worker runs the steps of one request, and the
\* steps of the two interleave in every order. No call fails.
ConcurrentInit ==
    /\ conversations = <<"s1">>
    /\ messages = [sid \in AllSessionIds |-> <<>>]
    /\ dynamic_facts = <<>>
    /\ pc = [p \in AllProcs |-> "idle"]
    /\ req = [p \in AllProcs |-> IdleReq]
    /\ faults = MaxFaults
    /\ fact_calls = <<>>
    /\ prompt = NoPrompt
    /\ call = NoCall
    /\ email_threads = <<>>

ConcurrentNext ==
    \E p \in AllProcs :
        \/ \E question \in Questions, deal_id \in DealArgs :
                AskSession(p, question, deal_id, "s1", TRUE)
        \/ AskLoad(p, TRUE, TRUE)
        \/ AskPersistUser(p, TRUE)
        \/ AskGreeting(p, TRUE, TRUE, TRUE)
        \/ /\ pc[p] = "route"
           /\ \E n \in 0..3 : AskSuppliedAnswer(p, TRUE, [i \in 1..n |-> TRUE], {}, TRUE, TRUE)
        \/ /\ pc[p] = "route"
           /\ \E hits \in {{}} \cup {qa_candidates(dynamic_facts, d) : d \in {NoDeal} \cup DealIds},
                 chunks \in SubsequencesOf(DocumentChunks) :
                   AskSearch(p, TRUE, {}, hits, chunks)
        \/ AskClarify(p, TRUE, TRUE, TRUE, TRUE)
        \/ /\ pc[p] = "classify"
           /\ \E answer \in AnswerTexts : AskAnswer(p, answer, TRUE, TRUE, TRUE, TRUE, TRUE)

SpecConcurrent == ConcurrentInit /\ [][ConcurrentNext]_vars

-----------------------------------------------------------------------------
(* The fact store called directly: FactExtractorService._upsert_fact and   *)
(* DealContextService.store_dynamic_kb_with_decomposition                  *)

\* store calls in one behaviour
MaxFactCalls == 3

FactKeys == {"minimum_ticket", "share_price"}

FactValues == {"$25k", "$30k"}

\* mapped columns of odp_deal_dynamic_facts
DealDynamicFactColumns ==
    {"id", "deal_id", "question", "answer", "fact_key", "fact_value",
     "embedding", "approval_status", "created_at"}

\* keyword arguments of the DealDynamicFact(...) call in the insert branch
UpsertInsertKwargs ==
    {"deal_id", "fact_key", "fact_value", "as_of_date", "source_note",
     "approval_status", "approved_by", "approved_at", "created_by"}

\* the declarative constructor raises TypeError on a keyword that is no
\* mapped attribute
constructor_accepts(kwargs) == kwargs \subseteq DealDynamicFactColumns

\* filter_by(deal_id, fact_key).first(): the oldest matching row, 0 for None
first_fact(rows, deal_id, fact_key) ==
    LET matching == {i \in 1..Len(rows) :
                        rows[i].deal_id = deal_id /\ rows[i].fact_key = fact_key}
    IN IF matching = {} THEN 0 ELSE CHOOSE i \in matching : \A j \in matching : i <= j

\* the table and the return value ("None": the except branch) of _upsert_fact
upsert_fact(rows, deal_id, fact_key, fact_value, db_ok) ==
    LET existing == first_fact(rows, deal_id, fact_key)
    IN IF ~db_ok THEN [rows |-> rows, action |-> "None"]
       ELSE IF existing # 0
       THEN [rows |-> [rows EXCEPT ![existing].fact_value = fact_value,
                                   ![existing].approval_status = "approved"],
             action |-> "updated"]
       ELSE IF constructor_accepts(UpsertInsertKwargs)
       THEN [rows |-> Append(rows, FactRow(deal_id, "", "", fact_key, fact_value,
                                           FALSE, "approved")),
             action |-> "created"]
       ELSE [rows |-> rows, action |-> "None"]

UpsertFact(deal_id, fact_key, fact_value, db_ok) ==
    /\ Len(fact_calls) < MaxFactCalls
    /\ CanFault(<<db_ok>>)
    /\ faults' = faults + Cost(<<db_ok>>)
    /\ LET out == upsert_fact(dynamic_facts, deal_id, fact_key, fact_value, db_ok)
       IN /\ dynamic_facts' = out.rows
          /\ fact_calls' = Append(fact_calls,
                 [op |-> "upsert_fact", deal_id |-> deal_id, fact_key |-> fact_key,
                  fact_value |-> fact_value, investor_question |-> "", user_answer |-> "",
                  action |-> out.action])
    /\ UNCHANGED <<conversations, messages, pc, req, prompt, email_threads, call>>

StoreWithDecomposition(deal_id, investor_question, user_answer, name_ok, oks) ==
    /\ Len(fact_calls) < MaxFactCalls
    /\ CanFault(<<name_ok>> \o oks)
    /\ Len(oks) = Len(decomposition_writes_memo[deal_id, investor_question, user_answer, name_ok])
    /\ faults' = faults + Cost(<<name_ok>> \o oks)
    /\ dynamic_facts' = store_dynamic_kb_with_decomposition(dynamic_facts, deal_id,
                            investor_question, user_answer, name_ok, oks)
    /\ fact_calls' = Append(fact_calls,
           [op |-> "store_with_decomposition", deal_id |-> deal_id,
            fact_key |-> "", fact_value |-> "", investor_question |-> investor_question,
            user_answer |-> user_answer, action |-> "None"])
    /\ UNCHANGED <<conversations, messages, pc, req, prompt, email_threads, call>>

FactsNext ==
    \/ \E deal_id \in DealIds, fact_key \in FactKeys, fact_value \in FactValues,
          db_ok \in BOOLEAN :
            UpsertFact(deal_id, fact_key, fact_value, db_ok)
    \/ \E deal_id \in DealIds, investor_question \in InvestorQuestions,
          user_answer \in SuppliedAnswers, name_ok \in BOOLEAN, n \in 0..3 :
          \E oks \in [1..n -> BOOLEAN] :
            StoreWithDecomposition(deal_id, investor_question, user_answer, name_ok, oks)

SpecFacts == Init /\ [][FactsNext]_vars

-----------------------------------------------------------------------------
(* Answer-mode prompt assembly: DealContextService.search_dynamic_kb,      *)
(* ContextBuilder.build_context, QueryService._merge_context,              *)
(* AnswerGenerator._format_answer_prompt                                   *)

TEAM_FACTS_HEADER == "-- TEAM-SUPPLIED FACTS (override document values below) --"

RECURSIVE QaParts(_, _)
QaParts(rows, qa_rows) ==
    IF qa_rows = <<>> THEN <<>>
    ELSE <<"Q: " \o rows[Head(qa_rows)].question, "A: " \o rows[Head(qa_rows)].answer, "">>
         \o QaParts(rows, Tail(qa_rows))

RECURSIVE FactParts(_, _)
FactParts(rows, facts) ==
    IF facts = <<>> THEN <<>>
    ELSE <<Title(ReplaceChar(rows[Head(facts)].fact_key, "_", " ")) \o ": "
             \o rows[Head(facts)].fact_value>>
         \o FactParts(rows, Tail(facts))

\* the block search_dynamic_kb returns for the rows of its two passes:
\* qa_rows in similarity order, facts in table order
dynamic_block(rows, qa_rows, facts) ==
    LET qa_parts == IF qa_rows = <<>> THEN <<>>
                    ELSE <<TEAM_FACTS_HEADER>> \o QaParts(rows, qa_rows)
        parts == IF facts = <<>> THEN qa_parts
                 ELSE (IF qa_parts = <<>> THEN <<TEAM_FACTS_HEADER>> ELSE qa_parts)
                      \o FactParts(rows, facts) \o <<"">>
    IN IF parts = <<>> THEN "" ELSE JoinWith(parts, "\n")

document_part(i, chunk) ==
    "Document " \o ToString(i) \o ":\n"
    \o "[Source: " \o chunk.doc_name
    \o (IF chunk.page_number # 0 THEN ", Page " \o ToString(chunk.page_number) ELSE "")
    \o ", Relevance: " \o PercentText(chunk.similarity) \o "]"
    \o "\n" \o chunk.chunk_text \o "\n"

build_context(chunks) ==
    IF chunks = <<>> THEN ""
    ELSE JoinWith([i \in 1..Len(chunks) |-> document_part(i, chunks[i])], "\n---\n")

\* a merge that puts the documents first
merge_documents_first(dynamic_context, doc_context) ==
    IF dynamic_context # "" /\ doc_context # ""
    THEN doc_context \o "\n\n" \o dynamic_context
    ELSE IF doc_context # "" THEN doc_context ELSE dynamic_context

merge_context(dynamic_context, doc_context) ==
    IF dynamic_context # "" /\ doc_context # ""
    THEN dynamic_context \o "\n\n" \o doc_context
    ELSE IF dynamic_context # "" THEN dynamic_context ELSE doc_context

\* "" for an unknown deal or a failed query
build_deal_context(deal_id, db_ok) ==
    IF db_ok /\ \E i \in 1..Len(ActiveDeals) : ActiveDeals[i].deal_id = deal_id
    THEN LET deal == ActiveDeals[CHOOSE i \in 1..Len(ActiveDeals) :
                                    ActiveDeals[i].deal_id = deal_id]
         IN "ACTIVE DEAL: " \o deal.deal_name \o " (code: " \o deal.deal_code \o ")"
    ELSE ""

format_answer_prompt(question, doc_context, deal_context) ==
    JoinWith(
        (IF Strip(deal_context) # ""
         THEN <<"-- DEAL INFORMATION --", Strip(deal_context), "">>
         ELSE <<>>)
        \o (IF Strip(doc_context) # ""
            THEN <<"-- KNOWLEDGE BASE (team facts first, then documents) --",
                   Strip(doc_context), "">>
            ELSE <<"-- NO KNOWLEDGE BASE CONTEXT FOUND --",
                   "Our knowledge base returned NO information for this question.",
                   "Do NOT answer from training knowledge.",
                   "Say: \"We don't have [specific detail] in our knowledge base.\"",
                   "Ask the user to provide the specific information.",
                   "">>)
        \o <<"--------------------------------------",
             "Investor Question: " \o question,
             "",
             "Answer:">>,
        "\n")

\* rows the fact store can hold: what two answer-supplied subflows wrote
FactPool ==
    decomposition_writes_memo[1, "What is the minimum ticket?", "It is $30k", TRUE]
    \o decomposition_writes_memo[2, "What is the fee for Anthropic?", "Minimum ticket is $25k", TRUE]

\* the sequences without repetition over a set of at most n elements
RECURSIVE Orderings(_, _)
Orderings(S, n) ==
    IF n = 0 \/ S = {} THEN {<<>>}
    ELSE {<<>>} \cup UNION {{<<x>> \o rest : rest \in Orderings(S \ {x}, n - 1)} : x \in S}

RECURSIVE Ascending(_)
Ascending(S) ==
    IF S = {} THEN <<>>
    ELSE LET x == CHOOSE y \in S : \A z \in S : y <= z
         IN <<x>> \o Ascending(S \ {x})

\* hits of the similarity pass a behaviour may pick, in rank order
MaxQaHits == 2

PromptInit ==
    /\ conversations = <<>>
    /\ messages = [sid \in AllSessionIds |-> <<>>]
    /\ dynamic_facts \in {SubSeq(FactPool, 1, n) : n \in 0..Len(FactPool)}
    /\ pc = [p \in AllProcs |-> "idle"]
    /\ req = [p \in AllProcs |-> IdleReq]
    /\ faults = 0
    /\ fact_calls = <<>>
    /\ prompt = NoPrompt
    /\ call = NoCall
    /\ email_threads = <<>>

\* steps 9, 10, 12, 13 and 15 of answer_question for a question that reaches
\* the answer-mode call: both searches, the merge and the user prompt
BuildPrompt(question, active_deal_id, qa_rows, facts_ok, chunks, context_ok) ==
    /\ ~prompt.built
    /\ CanFault(<<facts_ok, context_ok>>)
    /\ ~is_greeting_memo[question]
    /\ chunks \in search_similar_chunks(active_deal_id)
    /\ qa_rows \in Orderings(qa_candidates(dynamic_facts, active_deal_id), MaxQaHits)
    /\ LET deal == infer_deal_from_chunks(active_deal_id, chunks)
           facts == IF facts_ok THEN Ascending(fact_rows(dynamic_facts, active_deal_id))
                    ELSE <<>>
           dynamic_context == dynamic_block(dynamic_facts, qa_rows, facts)
           doc_context == build_context(chunks)
           full_context == merge_context(dynamic_context, doc_context)
           deal_context == IF deal # NoDeal THEN build_deal_context(deal, context_ok) ELSE ""
       IN /\ ~needs_clarification_memo[question, deal # NoDeal]
          /\ prompt' = [built |-> TRUE, question |-> question, chunks |-> chunks,
                        searched_deal_id |-> active_deal_id, active_deal_id |-> deal,
                        dynamic_rows |-> {qa_rows[i] : i \in 1..Len(qa_rows)}
                                         \cup {facts[i] : i \in 1..Len(facts)},
                        dynamic_context |-> dynamic_context, doc_context |-> doc_context,
                        full_context |-> full_context, deal_context |-> deal_context,
                        user_prompt |-> format_answer_prompt(question, full_context,
                                                             deal_context)]
    /\ faults' = faults + Cost(<<facts_ok, context_ok>>)
    /\ UNCHANGED <<conversations, messages, dynamic_facts, pc, req, fact_calls, email_threads, call>>

PromptNext ==
    \E question \in Questions, active_deal_id \in {NoDeal} \cup DealIds,
       qa_rows \in Orderings(1..Len(dynamic_facts), MaxQaHits), facts_ok \in BOOLEAN,
       chunks \in SubsequencesOf(DocumentChunks), context_ok \in BOOLEAN :
        BuildPrompt(question, active_deal_id, qa_rows, facts_ok, chunks, context_ok)

SpecPrompt == PromptInit /\ [][PromptNext]_vars

-----------------------------------------------------------------------------
(* Retrieval over arbitrary table contents:                                *)
(* DealContextService.search_dynamic_kb, SearchService.search_similar_chunks *)

\* rows the schema of odp_deal_dynamic_facts admits: embedding is nullable and
\* approval_status is 'approved' or 'pending'
FactTableRows ==
    << FactRow(1, "What is the minimum ticket?", "It is $30k", "", "", TRUE, "approved"),
       FactRow(1, "What is the minimum ticket?", "It is $99k", "minimum_ticket", "$99k",
               TRUE, "pending"),
       FactRow(2, "", "", "share_price", "$378", FALSE, "approved"),
       FactRow(2, "What is the fee for Anthropic?", "It is 2%", "", "", FALSE, "approved"),
       FactRow(1, "What is the carry?", "It is 20%", "carry", "20%", TRUE, "approved") >>

SearchInit ==
    /\ conversations = <<>>
    /\ messages = [sid \in AllSessionIds |-> <<>>]
    /\ dynamic_facts \in SubsequencesOf(FactTableRows)
    /\ pc = [p \in AllProcs |-> "idle"]
    /\ req = [p \in AllProcs |-> IdleReq]
    /\ faults = 0
    /\ fact_calls = <<>>
    /\ prompt = NoPrompt
    /\ call = NoCall
    /\ email_threads = <<>>

\* search_dynamic_kb(question, deal_id): qa_rows are the rows pass 1 returns, in
\* rank order; either pass may fail and then contributes nothing
SearchDynamicKb(deal_id, qa_rows, qa_ok, facts_ok) ==
    /\ call = NoCall
    /\ CanFault(<<qa_ok, facts_ok>>)
    /\ qa_rows \in Orderings(qa_candidates(dynamic_facts, deal_id), MaxQaHits)
    /\ qa_ok \/ qa_rows = <<>>
    /\ LET facts == IF facts_ok THEN Ascending(fact_rows(dynamic_facts, deal_id))
                    ELSE <<>>
       IN call' = [op |-> "search_dynamic_kb", deal_id |-> deal_id,
                     qa_rows |-> qa_rows, facts |-> facts, chunks |-> <<>>,
                     block |-> dynamic_block(dynamic_facts, qa_rows, facts)]
    /\ faults' = faults + Cost(<<qa_ok, facts_ok>>)
    /\ UNCHANGED <<conversations, messages, dynamic_facts, pc, req, fact_calls, prompt, email_threads>>

\* search_similar_chunks(question, deal_id): [] when the embedding call or the
\* query fails
SearchSimilarChunks(deal_id, chunks, search_ok) ==
    /\ call = NoCall
    /\ CanFault(<<search_ok>>)
    /\ chunks \in search_similar_chunks(deal_id)
    /\ search_ok \/ chunks = <<>>
    /\ call' = [op |-> "search_similar_chunks", deal_id |-> deal_id,
                  qa_rows |-> <<>>, facts |-> <<>>, chunks |-> chunks, block |-> ""]
    /\ faults' = faults + Cost(<<search_ok>>)
    /\ UNCHANGED <<conversations, messages, dynamic_facts, pc, req, fact_calls, prompt, email_threads>>

SearchNext ==
    \/ \E deal_id \in {NoDeal} \cup DealIds,
          qa_rows \in Orderings(1..Len(dynamic_facts), MaxQaHits),
          qa_ok, facts_ok \in BOOLEAN :
            SearchDynamicKb(deal_id, qa_rows, qa_ok, facts_ok)
    \/ \E deal_id \in {NoDeal} \cup DealIds, chunks \in SubsequencesOf(MapHits(ChunkTable)),
          search_ok \in BOOLEAN :
            SearchSimilarChunks(deal_id, chunks, search_ok)

SpecSearch == SearchInit /\ [][SearchNext]_vars

-----------------------------------------------------------------------------
(* Investor-question resolution over arbitrary histories:                  *)
(* QueryService._resolve_investor_question                                 *)

\* longest history the resolver is applied to
MaxHistory == 3

\* messages a loaded history can hold: user questions with and without a deal,
\* the clarifier's message as step 11 persists it, and an answer
HistoryMessages ==
    {Message("user", "What deals do you currently offer?", NoDeal, NoMeta),
     Message("user", "What is the minimum ticket?", NoDeal, NoMeta),
     Message("user", "SpaceX", 1, NoMeta),
     Message("assistant", "Happy to help! Are you asking about SpaceX or Anthropic?", NoDeal,
             Meta("clarification", "", "What is the minimum ticket?", "", "")),
     Message("assistant", "The minimum ticket is $25k.", 1,
             Meta("answer", "", "", "", "low"))}

CurrentQuestions == {"SpaceX", "It is $30k", "What is the minimum ticket?"}

SeqsUpTo(S, n) == UNION {[1..k -> S] : k \in 0..n}

\* _resolve_investor_question(history, current_question)
ResolveInvestorQuestion(history, current_question) ==
    /\ call = NoCall
    /\ call' = [op |-> "resolve_investor_question", history |-> history,
                current_question |-> current_question,
                result |-> resolve_investor_question(history, current_question)]
    /\ UNCHANGED <<conversations, messages, dynamic_facts, pc, req, faults, fact_calls, email_threads,
                   prompt>>

ResolveNext ==
    \E history \in SeqsUpTo(HistoryMessages, MaxHistory),
       current_question \in CurrentQuestions :
        ResolveInvestorQuestion(history, current_question)

SpecResolve == Init /\ [][ResolveNext]_vars

-----------------------------------------------------------------------------
(* The fact decomposer called directly:                                    *)
(* DealContextService._extract_atomic_facts                                *)

MultiPartQuestion == "Do you have details on structure, payment dates, and minimum ticket?"

MultiPartAnswer ==
    "Structure would be SPV. Payment dates would be Next Tuesday and Minimum Ticket would be $25K."

\* investor questions that name three topics, one topic, a topic by a short
\* keyword, and none
ExtractQuestions ==
    {MultiPartQuestion,
     "What is the minimum ticket?",
     "What is the fee for Anthropic?",
     "Whats the price per share now?",
     "How much is it?"}

\* answers of the team: several clauses, one clause with and without a
\* connector, a one-character value, no signal at all
ExtractAnswers ==
    {MultiPartAnswer,
     "Minimum ticket is $25k",
     "The minimum ticket: $25k, wire by Friday",
     "Minimum is 5",
     "Management fee is 2% and carry is 20%",
     "Share Price is ~$378.",
     "It is $30k"}

\* _extract_atomic_facts(investor_question, user_answer, deal_id)
ExtractAtomicFacts(investor_question, user_answer, deal_id, name_ok) ==
    /\ call = NoCall
    /\ call' = [op |-> "extract_atomic_facts", investor_question |-> investor_question,
                user_answer |-> user_answer, deal_id |-> deal_id,
                deal_name |-> get_deal_name(deal_id, name_ok),
                result |-> extract_atomic_facts(investor_question, user_answer,
                                                get_deal_name(deal_id, name_ok))]
    /\ UNCHANGED <<conversations, messages, dynamic_facts, pc, req, faults, fact_calls, email_threads,
                   prompt>>

ExtractNext ==
    \E investor_question \in ExtractQuestions, user_answer \in ExtractAnswers,
       deal_id \in DealIds, name_ok \in BOOLEAN :
        ExtractAtomicFacts(investor_question, user_answer, deal_id, name_ok)

SpecExtract == Init /\ [][ExtractNext]_vars

-----------------------------------------------------------------------------
(* Concurrent upserts of one fact                                          *)

\* Two _upsert_fact calls served by two workers that share the table and no
\* lock: the SELECT of a call and its commit are separate steps. No call fails
\* at the database.

\* the commit of a call that read `existing` (0: no row): the update branch
\* writes the row it read, the insert branch constructs and adds a row
upsert_write(rows, existing, deal_id, fact_key, fact_value) ==
    IF existing # 0
    THEN [rows |-> [rows EXCEPT ![existing].fact_value = fact_value,
                                ![existing].approval_status = "approved"],
          action |-> "updated"]
    ELSE IF constructor_accepts(UpsertInsertKwargs)
    THEN [rows |-> Append(rows, FactRow(deal_id, "", "", fact_key, fact_value,
                                        FALSE, "approved")),
          action |-> "created"]
    ELSE [rows |-> rows, action |-> "None"]

UpsertInit ==
    /\ conversations = <<>>
    /\ messages = [sid \in AllSessionIds |-> <<>>]
    /\ dynamic_facts \in SubsequencesOf(FactTableRows)
    /\ pc = [p \in AllProcs |-> "idle"]
    /\ req = [p \in AllProcs |-> IdleReq]
    /\ faults = 0
    /\ fact_calls = <<>>
    /\ prompt = NoPrompt
    /\ call = NoCall
    /\ email_threads = <<>>

\* DealDynamicFact.query.filter_by(deal_id, fact_key).first()
UpsertRead(p, deal_id, fact_key, fact_value) ==
    /\ pc[p] = "idle"
    /\ req' = [req EXCEPT ![p] =
                 [op |-> "upsert_fact", deal_id |-> deal_id, fact_key |-> fact_key,
                  fact_value |-> fact_value,
                  existing |-> first_fact(dynamic_facts, deal_id, fact_key),
                  found |-> Cardinality({i \in 1..Len(dynamic_facts) :
                                           /\ dynamic_facts[i].deal_id = deal_id
                                           /\ dynamic_facts[i].fact_key = fact_key}),
                  action |-> ""]]
    /\ pc' = [pc EXCEPT ![p] = "upsert_write"]
    /\ UNCHANGED <<conversations, messages, dynamic_facts, faults, fact_calls, prompt, email_threads, call>>

\* the branch on `existing`, the commit and the return value
UpsertWrite(p) ==
    /\ pc[p] = "upsert_write"
    /\ LET r == req[p]
           out == upsert_write(dynamic_facts, r.existing, r.deal_id, r.fact_key, r.fact_value)
       IN /\ dynamic_facts' = out.rows
          /\ req' = [req EXCEPT ![p] = [r EXCEPT !.action = out.action]]
    /\ pc' = [pc EXCEPT ![p] = "done"]
    /\ UNCHANGED <<conversations, messages, faults, fact_calls, prompt, email_threads, call>>

UpsertNext ==
    \E p \in AllProcs :
        \/ \E deal_id \in DealIds, fact_key \in FactKeys, fact_value \in FactValues :
                UpsertRead(p, deal_id, fact_key, fact_value)
        \/ UpsertWrite(p)

SpecUpsert == UpsertInit /\ [][UpsertNext]_vars

-----------------------------------------------------------------------------
(* The clarifier called directly: ClarificationService.needs_clarification *)
(* and its call at Step 11 of answer_question                              *)

\* the largest number of chunks a caller reports
MaxChunksFound == 2

ConfidenceLevels == {"high", "medium", "low"}

\* the questions of the pipeline, and questions with a general keyword in
\* upper case, next to a deal keyword, and inside another word ("this")
ClarifierQuestions ==
    Questions \cup {"Which deals are available?",
                    "HELLO there",
                    "Tell me about the fee",
                    "What is this fee?"}

\* needs_clarification(question, chunks_found, confidence, has_deal_context)
NeedsClarification(question, chunks_found, confidence, has_deal_context) ==
    /\ call = NoCall
    /\ call' = [op |-> "needs_clarification", question |-> question,
                chunks_found |-> chunks_found, confidence |-> confidence,
                has_deal_context |-> has_deal_context,
                result |-> needs_clarification(question, chunks_found, confidence,
                                               has_deal_context)]
    /\ UNCHANGED <<conversations, messages, dynamic_facts, pc, req, faults, fact_calls, email_threads,
                   prompt>>

\* Step 11: the arguments the orchestrator passes, and the response type it
\* returns when the clarifier says yes ("" when the pipeline goes on)
ClarificationStep(question, chunks, active_deal_id) ==
    /\ call = NoCall
    /\ LET result == needs_clarification(question, Len(chunks),
                                         calculate_confidence(chunks),
                                         active_deal_id # NoDeal)
       IN call' = [op |-> "step_11", question |-> question,
                   chunks_found |-> Len(chunks),
                   confidence |-> calculate_confidence(chunks),
                   active_deal_id |-> active_deal_id,
                   has_deal_context |-> active_deal_id # NoDeal,
                   result |-> result,
                   response_type |-> IF result THEN "needs_clarification" ELSE ""]
    /\ UNCHANGED <<conversations, messages, dynamic_facts, pc, req, faults, fact_calls, email_threads,
                   prompt>>

ClarifyNext ==
    \/ \E question \in ClarifierQuestions, chunks_found \in 0..MaxChunksFound,
          confidence \in ConfidenceLevels, has_deal_context \in BOOLEAN :
           NeedsClarification(question, chunks_found, confidence, has_deal_context)
    \/ \E question \in ClarifierQuestions, chunks \in SubsequencesOf(DocumentChunks),
          active_deal_id \in DealIds \cup {NoDeal} :
           ClarificationStep(question, chunks, active_deal_id)

SpecClarify == Init /\ [][ClarifyNext]_vars

-----------------------------------------------------------------------------
(* Email threads: ThreadParserService.submit_thread, deactivate_thread     *)

BOT_THREAD_MIN_LENGTH == 20

BOT_THREAD_MAX_LENGTH == 50000

\* rows of odp_deal_email_threads the model stores
MaxThreads == 3

ThreadSessions == {"s1", "s2"}

\* len(raw_thread_text.strip()) of the threads submitted: one character too
\* short, the shortest valid one, one character too long
ThreadLengths ==
    {BOT_THREAD_MIN_LENGTH - 1, BOT_THREAD_MIN_LENGTH, BOT_THREAD_MAX_LENGTH + 1}

\* deal_signals of the parsed thread
ThreadSignals == {<<>>, <<"SpaceX Series C">>}

\* the columns of DealEmailThread the service writes; the model declares an
\* index on session_id and no unique constraint
ThreadRow(id, session_id, raw_len) ==
    [id |-> id, session_id |-> session_id, raw_len |-> raw_len, deal_id |-> NoDeal,
     is_active |-> TRUE, parse_status |-> "pending"]

\* "" : the text is accepted
validate_thread_text(raw_len) ==
    IF raw_len < BOT_THREAD_MIN_LENGTH \/ raw_len > BOT_THREAD_MAX_LENGTH
    THEN "ValueError" ELSE ""

\* db_ok = FALSE: the query or the commit raised, the except branch rolls
\* back and returns False
deactivate_existing_threads(rows, session_id, db_ok) ==
    LET updated == {i \in 1..Len(rows) : rows[i].session_id = session_id /\ rows[i].is_active}
    IN IF ~db_ok \/ updated = {} THEN [rows |-> rows, result |-> FALSE]
       ELSE [rows |-> [i \in 1..Len(rows) |->
                          IF i \in updated THEN [rows[i] EXCEPT !.is_active = FALSE]
                          ELSE rows[i]],
             result |-> TRUE]

RECURSIVE SignalDealFrom(_, _, _)
SignalDealFrom(signals_lower, active_deals, i) ==
    IF i > Len(active_deals) THEN NoDeal
    ELSE LET name_lower == Lower(active_deals[i].deal_name)
             code_lower == Lower(active_deals[i].deal_code)
         IN IF \E k \in 1..Len(signals_lower) :
                   \/ Contains(name_lower, signals_lower[k])
                   \/ Contains(signals_lower[k], name_lower)
                   \/ Contains(code_lower, signals_lower[k])
                   \/ Contains(signals_lower[k], code_lower)
            THEN active_deals[i].deal_id
            ELSE SignalDealFrom(signals_lower, active_deals, i + 1)

\* db_ok = FALSE: the deals query raised, the except branch returns None
detect_deal_from_signals(deal_signals, db_ok) ==
    IF deal_signals = <<>> \/ ~db_ok THEN NoDeal
    ELSE SignalDealFrom([k \in 1..Len(deal_signals) |-> Lower(deal_signals[k])],
                        ActiveDeals, 1)

detect_deal_from_signals_memo ==
    [deal_signals \in ThreadSignals, db_ok \in BOOLEAN |->
        detect_deal_from_signals(deal_signals, db_ok)]

ThreadReq(op, session_id, raw_len, thread_id, error) ==
    [op |-> op, session_id |-> session_id, raw_len |-> raw_len,
     thread_id |-> thread_id, error |-> error]

\* submit_thread up to the deactivation of the session's active threads
SubmitThread(p, session_id, raw_len, db_ok) ==
    /\ pc[p] = "idle"
    /\ Len(email_threads) + Cardinality({q \in AllProcs : pc[q] = "thread_store"}) < MaxThreads
    /\ CanFault(<<db_ok>>)
    /\ IF validate_thread_text(raw_len) # ""
       THEN /\ req' = [req EXCEPT ![p] = ThreadReq("submit_thread", session_id, raw_len, 0,
                                                    validate_thread_text(raw_len))]
            /\ UNCHANGED <<pc, email_threads, faults>>
       ELSE /\ req' = [req EXCEPT ![p] = ThreadReq("submit_thread", session_id, raw_len, 0, "")]
            /\ pc' = [pc EXCEPT ![p] = "thread_store"]
            /\ email_threads' = deactivate_existing_threads(email_threads, session_id, db_ok).rows
            /\ faults' = faults + Cost(<<db_ok>>)
    /\ UNCHANGED <<conversations, messages, dynamic_facts, fact_calls, prompt, call>>

\* db.session.add(thread); commit; refresh. A failed commit propagates
StoreThread(p, db_ok) ==
    /\ pc[p] = "thread_store"
    /\ CanFault(<<db_ok>>)
    /\ faults' = faults + Cost(<<db_ok>>)
    /\ IF db_ok
       THEN /\ email_threads' = Append(email_threads,
                                      ThreadRow(Len(email_threads) + 1, req[p].session_id,
                                                req[p].raw_len))
            /\ req' = [req EXCEPT ![p].thread_id = Len(email_threads) + 1]
            /\ pc' = [pc EXCEPT ![p] = "thread_parse"]
       ELSE /\ req' = [req EXCEPT ![p].error = "Exception"]
            /\ pc' = [pc EXCEPT ![p] = "idle"]
            /\ UNCHANGED email_threads
    /\ UNCHANGED <<conversations, messages, dynamic_facts, fact_calls, prompt, call>>

\* _parse_via_llm, _detect_deal_from_signals and the second commit, which
\* writes the parsed columns of the row; parsed = FALSE: the LLM call raised
\* or returned no valid JSON
ParseThread(p, parsed, deal_signals, deals_ok, db_ok) ==
    /\ pc[p] = "thread_parse"
    /\ CanFault(<<deals_ok, db_ok>>)
    /\ faults' = faults + Cost(<<deals_ok, db_ok>>)
    /\ IF db_ok
       THEN /\ email_threads' =
                  [email_threads EXCEPT ![req[p].thread_id] =
                      IF parsed
                      THEN [@ EXCEPT !.deal_id = detect_deal_from_signals_memo[deal_signals, deals_ok],
                                     !.parse_status = "completed"]
                      ELSE [@ EXCEPT !.parse_status = "failed"]]
            /\ UNCHANGED req
       ELSE /\ req' = [req EXCEPT ![p].error = "Exception"]
            /\ UNCHANGED email_threads
    /\ pc' = [pc EXCEPT ![p] = "idle"]
    /\ UNCHANGED <<conversations, messages, dynamic_facts, fact_calls, prompt, call>>

\* deactivate_thread(session_id), the DELETE endpoint
DeactivateThread(p, session_id, db_ok) ==
    /\ pc[p] = "idle"
    /\ CanFault(<<db_ok>>)
    /\ faults' = faults + Cost(<<db_ok>>)
    /\ email_threads' = deactivate_existing_threads(email_threads, session_id, db_ok).rows
    /\ req' = [req EXCEPT ![p] = ThreadReq("deactivate_thread", session_id, 0, 0, "")]
    /\ UNCHANGED <<conversations, messages, dynamic_facts, pc, fact_calls, prompt, call>>

ThreadsNext ==
    \E p \in AllProcs :
        \/ \E session_id \in ThreadSessions, raw_len \in ThreadLengths, db_ok \in BOOLEAN :
                SubmitThread(p, session_id, raw_len, db_ok)
        \/ \E db_ok \in BOOLEAN : StoreThread(p, db_ok)
        \/ \E parsed \in BOOLEAN, deal_signals \in ThreadSignals, deals_ok \in BOOLEAN,
              db_ok \in BOOLEAN :
                ParseThread(p, parsed, deal_signals, deals_ok, db_ok)
        \/ \E session_id \in ThreadSessions, db_ok \in BOOLEAN :
                DeactivateThread(p, session_id, db_ok)

SpecThreads == Init /\ [][ThreadsNext]_vars

-----------------------------------------------------------------------------
(* Sessions: create, append, read, clear, draft from the session           *)

\* messages stored over all sessions of SpecSessions
MaxSessionMsgs == 3

\* session ids clients send and uuid4() returns
SessionPool == {"s1", "s2"}

\* history turns the draft button loads
DraftHistoryLimit == 20

\* a question about deal 1 and the needs_info it was answered with
SessionMessages ==
    { Message("user", "What is the minimum ticket?", 1, NoMeta),
      Message("assistant", "We don't have that in our knowledge base.", 1,
              Meta("needs_info", "What is the minimum ticket?", "", "", "low")) }

SessionsInit ==
    /\ conversations = <<>>
    /\ messages = [sid \in SessionPool |-> <<>>]
    /\ dynamic_facts \in {<<>>, FactTableRows}
    /\ pc = [p \in AllProcs |-> "idle"]
    /\ req = [p \in AllProcs |-> IdleReq]
    /\ faults = 0
    /\ fact_calls = <<>>
    /\ prompt = NoPrompt
    /\ call = NoCall
    /\ email_threads = <<>>

\* get_or_create_conversation(session_id); "" is no session_id
GetOrCreateConversation(session_id, new_id, db_ok) ==
    /\ CanFault(<<db_ok>>)
    /\ faults' = faults + Cost(<<db_ok>>)
    /\ LET conversation == get_or_create_conversation(conversations, session_id, new_id, db_ok)
       IN /\ conversations' = conversation.rows
          /\ call' = [op |-> "get_or_create_conversation", session_id |-> session_id,
                      db_ok |-> db_ok, result |-> conversation.session_id,
                      raised |-> conversation.raised]
    /\ UNCHANGED <<messages, dynamic_facts, pc, req, fact_calls, prompt, email_threads>>

\* add_message on the conversation a get_or_create returned
AddMessage(session_id, message, db_ok) ==
    /\ session_id \in SessionIds
    /\ TotalLen(SessionPool) < MaxSessionMsgs
    /\ CanFault(<<db_ok>>)
    /\ faults' = faults + Cost(<<db_ok>>)
    /\ messages' = [messages EXCEPT ![session_id] =
                        add_message(@, message.role, message.content, message.deal_id,
                                    message.metadata, db_ok)]
    /\ call' = [op |-> "add_message", session_id |-> session_id, saved |-> db_ok]
    /\ UNCHANGED <<conversations, dynamic_facts, pc, req, fact_calls, prompt, email_threads>>

\* GET /bot/conversation/<session_id>, and what the next request would read
\* from the history it loads
GetConversationHistory(session_id, db_ok) ==
    /\ CanFault(<<db_ok>>)
    /\ faults' = faults + Cost(<<db_ok>>)
    /\ LET history == get_conversation_history(session_id,
                                               BOT_LAST_CONVERSATION_MESSAGES_LIMIT, db_ok)
       IN call' = [op |-> "get_conversation_history", session_id |-> session_id,
                   result |-> history,
                   pending_question |-> get_pending_question(history),
                   active_deal_id |-> get_deal_from_history(history)]
    /\ UNCHANGED <<conversations, messages, dynamic_facts, pc, req, fact_calls, prompt, email_threads>>

\* DELETE /bot/conversation/<session_id>
ClearConversation(session_id, db_ok) ==
    /\ CanFault(<<db_ok>>)
    /\ faults' = faults + Cost(<<db_ok>>)
    /\ LET cleared == clear_conversation(session_id, db_ok)
       IN /\ conversations' = cleared.conversations
          /\ messages' = cleared.messages
          /\ call' = [op |-> "clear_conversation", session_id |-> session_id,
                      db_ok |-> db_ok, cleared |-> cleared.cleared,
                      deleted |-> Len(messages[session_id]) - Len(cleared.messages[session_id])]
    /\ UNCHANGED <<dynamic_facts, pc, req, fact_calls, prompt, email_threads>>

\* a draft button that only looks for a question in the history
draft_error_without_history_check(raised, history, investor_question, llm_ok) ==
    IF raised THEN "DRAFT_FAILED"
    ELSE IF investor_question = "" THEN "NO_QUESTION"
    ELSE IF ~llm_ok THEN "DRAFT_FAILED"
    ELSE ""

\* the error code generate_draft_from_session raises, "" when it returns
draft_error(raised, history, investor_question, llm_ok) ==
    IF raised THEN "DRAFT_FAILED"
    ELSE IF history = <<>> THEN "NO_CONVERSATION"
    ELSE IF investor_question = "" THEN "NO_QUESTION"
    ELSE IF ~llm_ok THEN "DRAFT_FAILED"
    ELSE ""

\* POST /bot/draft: the session is looked up or created, its last 20 messages
\* loaded, the draft generated and appended
GenerateDraftFromSession(session_id, db_ok, history_ok, llm_ok, save_ok) ==
    /\ CanFault(<<db_ok, history_ok, llm_ok, save_ok>>)
    /\ faults' = faults + Cost(<<db_ok, history_ok, llm_ok, save_ok>>)
    /\ LET conversation == get_or_create_conversation(conversations, session_id,
                                                      session_id, db_ok)
           history == IF conversation.raised THEN <<>>
                      ELSE get_conversation_history(session_id, DraftHistoryLimit, history_ok)
           investor_question == resolve_investor_question(history, "")
           error == draft_error(conversation.raised, history, investor_question, llm_ok)
           reached_llm == ~conversation.raised /\ investor_question # ""
                             /\ error \in {"", "DRAFT_FAILED"}
       IN /\ conversation.raised => history_ok
          /\ ~reached_llm => llm_ok
          /\ error # "" => save_ok
          /\ error = "" => TotalLen(SessionPool) < MaxSessionMsgs
          /\ conversations' = conversation.rows
          /\ messages' =
                IF error = ""
                THEN [messages EXCEPT ![session_id] =
                         add_message(@, "assistant", DraftText, get_deal_from_history(history),
                                     Meta("draft_email", "", "", "generate_draft_button", ""),
                                     save_ok)]
                ELSE messages
          /\ call' = [op |-> "generate_draft_from_session", session_id |-> session_id,
                      db_ok |-> db_ok, history |-> history, error |-> error,
                      llm_calls |-> IF reached_llm THEN <<"draft">> ELSE <<>>,
                      investor_question |-> investor_question]
    /\ UNCHANGED <<dynamic_facts, pc, req, fact_calls, prompt, email_threads>>

SessionsNext ==
    \/ \E session_id \in SessionPool \cup {""}, db_ok \in BOOLEAN :
          \E new_id \in (IF session_id # "" THEN {session_id} ELSE SessionPool \ SessionIds) :
            GetOrCreateConversation(session_id, new_id, db_ok)
    \/ \E session_id \in SessionPool, message \in SessionMessages, db_ok \in BOOLEAN :
            AddMessage(session_id, message, db_ok)
    \/ \E session_id \in SessionPool, db_ok \in BOOLEAN :
            GetConversationHistory(session_id, db_ok)
    \/ \E session_id \in SessionPool, db_ok \in BOOLEAN :
            ClearConversation(session_id, db_ok)
    \/ \E session_id \in SessionPool, db_ok, history_ok, llm_ok, save_ok \in BOOLEAN :
            GenerateDraftFromSession(session_id, db_ok, history_ok, llm_ok, save_ok)

SpecSessions == SessionsInit /\ [][SessionsNext]_vars

-----------------------------------------------------------------------------
(* The messages arrays sent to the LLM                                     *)

\* history turns injected in answer and ask mode, and in draft mode
AnswerHistoryTurns == 6

DraftHistoryTurns == 10

\* longest assistant content a history turn, and a summary line, keeps whole
HistoryTruncateLen == 600

SummaryTruncateLen == 800

\* rows a stored conversation holds
MaxStored == 11

RECURSIVE Repeat(_, _)
Repeat(c, n) ==
    IF n = 0 THEN ""
    ELSE LET half == Repeat(c, n \div 2)
         IN half \o half \o (IF n % 2 = 1 THEN c ELSE "")

\* a turn of history_messages for every row of a user or an assistant with
\* content, of the last max_messages rows
build_history_messages_from(history, max_messages, truncate_len) ==
    LET recent == LastN(history, max_messages)
        turn(i) ==
            LET content == Strip(recent[i].content)
            IN [role |-> recent[i].role,
                content |-> IF recent[i].role = "assistant" /\ Len(content) > truncate_len
                            THEN SubSeq(content, 1, truncate_len) \o "..."
                            ELSE content]
    IN SelectSeq([i \in 1..Len(recent) |-> turn(i)],
                 LAMBDA t : t.role \in {"user", "assistant"} /\ t.content # "")

\* history turns injected newest first
build_history_messages_newest_first(history, max_messages) ==
    LET turns == build_history_messages_from(history, max_messages, HistoryTruncateLen)
    IN [i \in 1..Len(turns) |-> turns[Len(turns) + 1 - i]]

build_history_messages(history, max_messages) ==
    build_history_messages_from(history, max_messages, HistoryTruncateLen)

build_conversation_summary(history, latest_user_answer) ==
    IF history = <<>> THEN latest_user_answer
    ELSE LET line(i) ==
                 LET content == Strip(history[i].content)
                 IN "\n[" \o (IF history[i].role = "user" THEN "Investor" ELSE "ODP Team")
                      \o "]: "
                      \o (IF history[i].role = "assistant" /\ Len(content) > SummaryTruncateLen
                          THEN SubSeq(content, 1, SummaryTruncateLen) \o "..."
                          ELSE content)
         IN JoinWith(<<"Conversation context:">>
                     \o SelectSeq([i \in 1..Len(history) |-> line(i)],
                                  LAMBDA l : Len(l) > Len("\n[Investor]: ")
                                             /\ l # "\n[ODP Team]: ")
                     \o (IF latest_user_answer # ""
                         THEN <<"\n[ODP Team - answer provided]: " \o latest_user_answer>>
                         ELSE <<>>),
                     "\n")

\* the system prompt: the opening line and the task title of the mode
build_system_prompt(mode) ==
    "You are an AI assistant for Open Doors Partners (ODP), a private investment firm.\n"
    \o (IF mode = "ask" THEN "YOUR TASK: REQUEST MISSING INFO (GAPS ONLY)"
        ELSE IF mode = "draft" THEN "YOUR TASK: DRAFT EMAIL REPLY"
        ELSE "CONTEXT PRIORITY - READ CAREFULLY")

info_request_prompt(original_question, partial_answer) ==
    "The investor asked:\n\"" \o original_question \o "\"\n\n"
    \o "Here is what I was ALREADY ABLE TO CONFIRM from our knowledge base:\n---\n"
    \o partial_answer \o "\n---\n\n"
    \o "Write a short message asking our team member ONLY for those specific missing items.\n"
    \o "End with: \"Once you share these, I will draft the reply right away.\" "

format_draft_prompt(investor_question, user_info, deal_context, doc_context) ==
    JoinWith(
        <<"-- INVESTOR'S QUESTION (we are replying to this) --", Strip(investor_question), "",
          "-- INFORMATION PROVIDED BY OUR TEAM --",
          IF user_info # "" THEN Strip(user_info) ELSE "(none provided)", "">>
        \o (IF Strip(deal_context) # ""
            THEN <<"-- DEAL INFORMATION --", Strip(deal_context), "">>
            ELSE <<>>)
        \o (IF Strip(doc_context) # ""
            THEN <<"-- KNOWLEDGE BASE (team facts first, then documents) --",
                   Strip(doc_context), "">>
            ELSE <<>>)
        \o <<"--------------------------------------",
             "Draft the email reply using all information above.",
             "Follow tone rules exactly. End with 'Best,'",
             "",
             "Draft Email:">>,
        "\n")

\* the messages array of generate_answer, generate_info_request and
\* generate_draft_email
llm_messages(mode, history_messages, user_prompt) ==
    <<[role |-> "system", content |-> build_system_prompt(mode)]>>
    \o SelectSeq(history_messages,
                 LAMBDA t : t.role \in {"user", "assistant"} /\ t.content # "")
    \o <<[role |-> "user", content |-> user_prompt]>>

\* the i-th stored row: questions and their answers in turn, about deal 1
UserText(i) == "What is the fee for round " \o ToString(i) \o "?"

AssistantText(i) == "The fee for round " \o ToString(i - 1) \o " is 2%."

\* a conversation of n rows whose row k, if any, holds a text of long_len
\* characters, and whose last answer asked for missing information if pending
StoredRows(n, k, long_len, pending) ==
    [i \in 1..n |->
        LET content == IF i = k THEN Repeat("x", long_len)
                       ELSE IF i % 2 = 1 THEN UserText(i) ELSE AssistantText(i)
        IN IF i % 2 = 1 THEN Message("user", content, 1, NoMeta)
           ELSE Message("assistant", content, 1,
                        IF pending /\ i + 1 >= n
                        THEN Meta("needs_info", UserText(i - 1), "", "", "medium")
                        ELSE Meta("answer", "", "", "", "medium"))]

LongLens == {HistoryTruncateLen, HistoryTruncateLen + 1,
             SummaryTruncateLen, SummaryTruncateLen + 1}

StoredHistories ==
    {StoredRows(n, 0, 0, pending) : n \in 0..MaxStored, pending \in BOOLEAN}
    \cup UNION {{StoredRows(n, k, long_len, pending) :
                     k \in {n - 1, n} \ {0}, long_len \in LongLens} :
                 n \in 1..MaxStored, pending \in BOOLEAN}

HistoryInit ==
    /\ conversations = <<"s1">>
    /\ messages \in [AllSessionIds -> StoredHistories]
    /\ dynamic_facts = <<>>
    /\ pc = [p \in AllProcs |-> "idle"]
    /\ req = [p \in AllProcs |-> IdleReq]
    /\ faults = 0
    /\ fact_calls = <<>>
    /\ prompt = NoPrompt
    /\ call = NoCall
    /\ email_threads = <<>>

\* POST /bot/ask that reaches the answer-mode call (steps 2, 5, 14-17): the
\* history is loaded, the question stored, the answer generated from the
\* loaded history and, when it misses information, the info request too
AnswerWithHistory(session_id, question, answer) ==
    /\ call = NoCall
    /\ LET history == get_conversation_history(session_id,
                                               BOT_LAST_CONVERSATION_MESSAGES_LIMIT, TRUE)
           active_deal_id == get_deal_from_history(history)
           history_messages == build_history_messages(history, AnswerHistoryTurns)
           needs_info == has_missing_info_signal_memo[answer]
           original_investor_question == resolve_investor_question(history, question)
           answer_call == [mode |-> "answer",
                           messages |-> llm_messages("answer", history_messages,
                                                     format_answer_prompt(question, "", ""))]
           ask_call == [mode |-> "ask",
                        messages |-> llm_messages("ask", history_messages,
                                        info_request_prompt(original_investor_question, answer))]
           stored == add_message(messages[session_id], "user", question, active_deal_id,
                                 NoMeta, TRUE)
       IN /\ ~is_supplied_answer(get_pending_question(history), active_deal_id, question)
          /\ messages' = [messages EXCEPT ![session_id] =
                IF needs_info
                THEN add_message(stored, "assistant", answer \o "\n\n---\n" \o InfoRequestText,
                                 active_deal_id,
                                 Meta("needs_info", original_investor_question, "", "", "low"),
                                 TRUE)
                ELSE add_message(stored, "assistant", answer, active_deal_id,
                                 Meta("answer", "", "", "", "low"), TRUE)]
          /\ call' = [op |-> "llm_calls", handler |-> "answer_question",
                      question |-> question, loaded |-> Len(history),
                      calls |-> IF needs_info THEN <<answer_call, ask_call>>
                                ELSE <<answer_call>>]
    /\ UNCHANGED <<conversations, dynamic_facts, pc, req, faults, fact_calls, prompt, email_threads>>

\* POST /bot/ask whose message answers the pending question (step 7)
SupplyAnswerWithHistory(session_id, user_answer) ==
    /\ call = NoCall
    /\ LET history == get_conversation_history(session_id,
                                               BOT_LAST_CONVERSATION_MESSAGES_LIMIT, TRUE)
           active_deal_id == get_deal_from_history(history)
           pending_question == get_pending_question(history)
           history_messages == build_history_messages(history, DraftHistoryTurns)
           summary == build_conversation_summary(history, user_answer)
           stored == add_message(messages[session_id], "user", user_answer, active_deal_id,
                                 NoMeta, TRUE)
       IN /\ is_supplied_answer(pending_question, active_deal_id, user_answer)
          /\ messages' = [messages EXCEPT ![session_id] =
                add_message(stored, "assistant", DraftText, active_deal_id,
                            Meta("draft_email", pending_question, "", "", ""), TRUE)]
          /\ call' = [op |-> "llm_calls", handler |-> "handle_user_supplied_answer",
                      question |-> user_answer, loaded |-> Len(history),
                      calls |-> <<[mode |-> "draft",
                                   messages |-> llm_messages("draft", history_messages,
                                       format_draft_prompt(pending_question, summary,
                                           build_deal_context(active_deal_id, TRUE), ""))]>>]
    /\ UNCHANGED <<conversations, dynamic_facts, pc, req, faults, fact_calls, prompt, email_threads>>

\* POST /bot/draft for a session with an investor question in its history
DraftWithHistory(session_id) ==
    /\ call = NoCall
    /\ LET history == get_conversation_history(session_id, DraftHistoryLimit, TRUE)
           active_deal_id == get_deal_from_history(history)
           investor_question == resolve_investor_question(history, "")
           history_messages == build_history_messages(history, DraftHistoryTurns)
           summary == build_conversation_summary(history, "")
       IN /\ draft_error(FALSE, history, investor_question, TRUE) = ""
          /\ messages' = [messages EXCEPT ![session_id] =
                add_message(@, "assistant", DraftText, active_deal_id,
                            Meta("draft_email", "", "", "generate_draft_button", ""), TRUE)]
          /\ call' = [op |-> "llm_calls", handler |-> "generate_draft_from_session",
                      question |-> "", loaded |-> Len(history),
                      calls |-> <<[mode |-> "draft",
                                   messages |-> llm_messages("draft", history_messages,
                                       format_draft_prompt(investor_question, summary,
                                           IF active_deal_id # NoDeal
                                           THEN build_deal_context(active_deal_id, TRUE)
                                           ELSE "", ""))]>>]
    /\ UNCHANGED <<conversations, dynamic_facts, pc, req, faults, fact_calls, prompt, email_threads>>

HistoryNext ==
    \/ \E question \in {q \in Questions : is_new_question_memo[q]}, answer \in AnswerTexts :
            AnswerWithHistory("s1", question, answer)
    \/ \E user_answer \in SuppliedAnswers \cap Questions :
            SupplyAnswerWithHistory("s1", user_answer)
    \/ DraftWithHistory("s1")

SpecHistory == HistoryInit /\ [][HistoryNext]_vars

-----------------------------------------------------------------------------
(* Properties of the pipeline, checked under Spec                          *)

IsAssistantWrite(w) == w.message.role = "assistant"

AssistantWrites(r) == SelectSeq(r.writes, IsAssistantWrite)

\* the request of worker p returned a response (it did not raise QUERY_FAILED)
Returned(p) == pc[p] = "done" /\ req[p].error = ""

\* the newest assistant message of the loaded history has metadata type needs_info
NewestAssistantIsNeedsInfo(history) ==
    \E i \in 1..Len(history) :
        /\ history[i].role = "assistant"
        /\ history[i].metadata.type = "needs_info"
        /\ \A j \in (i + 1)..Len(history) : history[j].role # "assistant"

\* positions, in ActiveDeals, of the deals whose name or code a message contains
NamedDeals ==
    [q \in Questions |->
        {i \in 1..Len(ActiveDeals) :
            \/ Contains(Lower(q), Lower(ActiveDeals[i].deal_name))
            \/ Contains(Lower(q), Lower(ActiveDeals[i].deal_code))}]

HistoryDeals(history) == {i \in 1..Len(history) : history[i].deal_id # NoDeal}

Least(S) == CHOOSE i \in S : \A j \in S : i <= j

Greatest(S) == CHOOSE i \in S : \A j \in S : j <= i

\* the active deal the priority rule gives request r, over the deal list and
\* the history the request loaded
ExpectedDeal(r) ==
    LET named == {i \in NamedDeals[r.question] : i <= Len(r.all_deals)}
    IN IF r.deal_id # NoDeal THEN r.deal_id
       ELSE IF named # {} THEN r.all_deals[Least(named)].deal_id
       ELSE IF HistoryDeals(r.history) # {}
            THEN r.history[Greatest(HistoryDeals(r.history))].deal_id
            ELSE NoDeal

\* C1: a greeting sent while a needs_info is pending is answered as a greeting
\* and leaves the needs_info pending: when the loaded history ends with the
\* needs_info message, the greeting and its reply, a message that is neither a
\* greeting nor a new question, sent with a known deal, gets a draft_email.
\* Stated of the behaviours in which no call fails.
C1_GreetingKeepsPending ==
    \A p \in AllProcs :
        (faults = 0 /\ Returned(p)) =>
            LET r == req[p]
                h == r.history
                n == Len(h)
            IN /\ (is_greeting_memo[r.question] /\ NewestAssistantIsNeedsInfo(h))
                      => r.response.response_type = "answer"
               /\ ( /\ n >= 3
                    /\ h[n - 2].role = "assistant" /\ h[n - 2].metadata.type = "needs_info"
                    /\ h[n - 1].role = "user" /\ is_greeting_memo[h[n - 1].content]
                    /\ h[n].role = "assistant" /\ h[n].metadata.type = "greeting"
                    /\ ~is_greeting_memo[r.question]
                    /\ ~is_new_question_memo[r.question]
                    /\ ExpectedDeal(r) # NoDeal )
                      => r.response.response_type = "draft_email"

\* C2: a message that is not a greeting and not a new question, sent with a
\* known deal while the newest assistant message is a needs_info, runs the
\* answer-supplied subflow: store_with_decomposition is called with the active
\* deal, the pending investor question and the message; no rewrite, clarifier
\* or answer-mode LLM call is made; and a request that returns has made one
\* assistant add_message, {type: draft_email, trigger: user_supplied_answer},
\* which is the newest message of the session once committed, and returns
\* draft_email.
C2_SuppliedAnswerSubflow ==
    \A p \in AllProcs :
        LET r == req[p]
            h == r.history
        IN ( /\ pc[p] = "done"
             /\ ~is_greeting_memo[r.question]
             /\ NewestAssistantIsNeedsInfo(h)
             /\ ExpectedDeal(r) # NoDeal
             /\ ~is_new_question_memo[r.question] )
           => /\ r.branch = "supplied_answer"
              /\ r.store_args = <<ExpectedDeal(r),
                                  h[LastAssistant(h)].metadata.investor_question,
                                  r.question>>
              /\ \A i \in 1..Len(r.llm_calls) :
                    r.llm_calls[i] \notin {"rewrite", "clarify", "answer"}
              /\ r.error = "" =>
                    /\ r.response.response_type = "draft_email"
                    /\ Len(AssistantWrites(r)) = 1
                    /\ AssistantWrites(r)[1].message.metadata =
                           Meta("draft_email", "", "", "user_supplied_answer", "")
                    /\ AssistantWrites(r)[1].committed =>
                           LET rows == messages[r.session_id]
                           IN rows # <<>> /\ rows[Len(rows)] = AssistantWrites(r)[1].message

C2_Witness ==
    \E p \in AllProcs :
        /\ Returned(p)
        /\ req[p].branch = "supplied_answer"
        /\ NewestAssistantIsNeedsInfo(req[p].history)
        /\ Len(AssistantWrites(req[p])) = 1
        /\ AssistantWrites(req[p])[1].committed
        /\ Len(req[p].stored) >= 2

\* C3: a step changes dynamic_facts only as the answer-supplied subflow of a
\* request whose message is neither a greeting nor a new question and whose
\* newest assistant message is a needs_info; the step only appends rows and
\* ends the request, as draft_email or QUERY_FAILED. So a request that ends as
\* greeting, answer, needs_info or needs_clarification wrote no fact.
C3_OnlySuppliedAnswerWritesFacts ==
    [][dynamic_facts' # dynamic_facts =>
          \E p \in AllProcs :
              /\ pc[p] = "route" /\ pc'[p] = "done"
              /\ ~is_greeting_memo[req[p].question]
              /\ ~is_new_question_memo[req[p].question]
              /\ NewestAssistantIsNeedsInfo(req[p].history)
              /\ req'[p].response.response_type \in {"draft_email", ""}
              /\ req'[p].response.response_type = "" => req'[p].error = "QUERY_FAILED"
              /\ Len(dynamic_facts') > Len(dynamic_facts)
              /\ SubSeq(dynamic_facts', 1, Len(dynamic_facts)) = dynamic_facts]_vars

\* a new question asked while a needs_info is pending, with facts in the table
C3_Witness ==
    \E p \in AllProcs :
        /\ Returned(p)
        /\ NewestAssistantIsNeedsInfo(req[p].history)
        /\ is_new_question_memo[req[p].question]
        /\ req[p].response.response_type \in {"answer", "needs_info"}
        /\ dynamic_facts # <<>>

NeedsInfoAfterLastUser(rows) ==
    {i \in 1..Len(rows) :
        /\ rows[i].role = "assistant"
        /\ rows[i].metadata.type = "needs_info"
        /\ \A j \in 1..Len(rows) : rows[j].role = "user" => j < i}

\* C4: when no request is in flight, a session holds at most one assistant
\* needs_info message newer than its last user message.
C4_AtMostOnePending ==
    (\A p \in AllProcs : pc[p] \in {"idle", "done"}) =>
        \A sid \in AllSessionIds : Cardinality(NeedsInfoAfterLastUser(messages[sid])) <= 1

\* the request names no deal: no deal_id argument, no deal name or code in the
\* question, no deal_id in the loaded history; and asks about a deal's terms
AsksAboutUnnamedDeal(r) ==
    /\ r.deal_id = NoDeal
    /\ NamedDeals[r.question] = {}
    /\ HistoryDeals(r.history) = {}
    /\ is_deal_specific_memo[r.question]

NamesEveryActiveDeal(text) ==
    \A i \in 1..Len(ActiveDeals) : Contains(text, ActiveDeals[i].deal_name)

\* C5 as stated: a deal-specific question that names no deal, with no deal in
\* the history, is answered by needs_clarification naming every active deal,
\* with no answer-mode LLM call, whatever the searches return. Stated of the
\* behaviours in which no call fails.
C5_AlwaysClarifies ==
    \A p \in AllProcs :
        (faults = 0 /\ Returned(p) /\ AsksAboutUnnamedDeal(req[p])) =>
            /\ req[p].response.response_type = "needs_clarification"
            /\ NamesEveryActiveDeal(req[p].response.text)
            /\ \A i \in 1..Len(req[p].llm_calls) : req[p].llm_calls[i] # "answer"

IsGeneral(question) ==
    \E pattern \in GENERAL_KEYWORDS : Contains(Strip(Lower(question)), pattern)

IsGeneralQuestion == [q \in Questions |-> IsGeneral(q)]

GenericClarifyingQuestion ==
    "Happy to help! Could you let me know which deal you're asking about?"

\* C5 amended: such a request, when its question is no greeting and holds no
\* general-knowledge keyword and the static search returns no chunk that
\* carries a deal_id, makes no answer-mode LLM call; if it returns, it returns
\* needs_clarification, persists nothing but the clarifying question, and the
\* question names every active deal or, when the deal names could not be
\* loaded, is the generic "which deal" question.
C5_ClarifiesWithoutDealChunks ==
    \A p \in AllProcs :
        LET r == req[p]
        IN ( /\ pc[p] = "done"
             /\ AsksAboutUnnamedDeal(r)
             /\ ~is_greeting_memo[r.question]
             /\ ~IsGeneralQuestion[r.question]
             /\ \A i \in 1..Len(r.chunks) : r.chunks[i].deal_id = NoDeal )
           => /\ \A i \in 1..Len(r.llm_calls) : r.llm_calls[i] # "answer"
              /\ r.error = "" =>
                    /\ r.response.response_type = "needs_clarification"
                    /\ \/ NamesEveryActiveDeal(r.response.text)
                       \/ r.response.text = GenericClarifyingQuestion

C5_Witness ==
    \E p \in AllProcs :
        /\ Returned(p)
        /\ AsksAboutUnnamedDeal(req[p])
        /\ req[p].chunks = <<>>
        /\ req[p].response.response_type = "needs_clarification"
        /\ NamesEveryActiveDeal(req[p].response.text)

\* C6: a request that returns needs_clarification has persisted exactly one
\* assistant message, with metadata {type: needs_clarification,
\* original_question: the raw question}. Stated of the behaviours in which no
\* call fails.
C6_ClarificationMetadata ==
    \A p \in AllProcs :
        (faults = 0 /\ Returned(p) /\ req[p].response.response_type = "needs_clarification") =>
            /\ Len(AssistantWrites(req[p])) = 1
            /\ AssistantWrites(req[p])[1].committed
            /\ AssistantWrites(req[p])[1].message.metadata =
                   Meta("needs_clarification", "", req[p].question, "", "")

\* C8: the active deal of a request is the deal_id argument if given, else the
\* first deal of the loaded active-deal list whose name or code the question
\* contains (ignoring case), else the newest deal_id of the loaded history,
\* else none; and the user message is written with exactly this deal_id, as
\* the newest row of the session once committed.
C8_ActiveDealPriority ==
    \A p \in AllProcs :
        /\ pc[p] \in {"user", "route"} => req[p].active_deal_id = ExpectedDeal(req[p])
        /\ pc[p] = "route" =>
              /\ Len(req[p].writes) = 1
              /\ req[p].writes[1].message =
                     Message("user", req[p].question, ExpectedDeal(req[p]), NoMeta)
              /\ req[p].writes[1].committed =>
                     LET rows == messages[req[p].session_id]
                     IN rows # <<>> /\ rows[Len(rows)] = req[p].writes[1].message

\* the deal_id argument wins over a deal the question names and over the
\* deal of the history
C8_Witness ==
    \E p \in AllProcs :
        /\ pc[p] = "route"
        /\ req[p].deal_id = 1
        /\ NamedDeals[req[p].question] = {2}
        /\ HistoryDeals(req[p].history) # {}
        /\ req[p].writes[1].committed
        /\ req[p].writes[1].message.deal_id = 1

\* whether an answer text holds a missing-info phrase, ignoring case
MentionsMissingInfo ==
    [a \in AnswerTexts |-> \E sig \in MISSING_INFO_SIGNALS : Contains(Lower(a), sig)]

NeedsInfoContent == [a \in AnswerTexts |-> a \o "\n\n---\n" \o InfoRequestText]

MadeAnswerCall(r) == \E i \in 1..Len(r.llm_calls) : r.llm_calls[i] = "answer"

\* C13: a request that made the answer-mode call and returns has made exactly
\* one assistant add_message and is classified by the answer text alone. With a
\* missing-info phrase (ignoring case): content answer + "\n\n---\n" +
\* info_request, metadata {type: needs_info, investor_question, sources,
\* confidence}, response needs_info. Otherwise: content answer, metadata
\* {type: answer, sources, confidence}, response answer with show_draft_button.
C13_ClassifiedByAnswerText ==
    \A p \in AllProcs :
        (Returned(p) /\ MadeAnswerCall(req[p])) =>
            LET r == req[p]
                answer == r.response.text
                ws == AssistantWrites(r)
            IN /\ answer \in AnswerTexts
               /\ Len(ws) = 1
               /\ r.confidence \in {"high", "medium", "low"}
               /\ IF MentionsMissingInfo[answer]
                  THEN /\ r.response.response_type = "needs_info"
                       /\ ws[1].message.content = NeedsInfoContent[answer]
                       /\ ws[1].message.metadata.investor_question # ""
                       /\ ws[1].message.metadata =
                              WithSources(Meta("needs_info",
                                               ws[1].message.metadata.investor_question,
                                               "", "", r.confidence),
                                          extract_sources_memo[r.chunks])
                  ELSE /\ r.response.response_type = "answer"
                       /\ r.response.show_draft_button
                       /\ ws[1].message.content = answer
                       /\ ws[1].message.metadata =
                              WithSources(Meta("answer", "", "", "", r.confidence),
                                          extract_sources_memo[r.chunks])

\* an answer with a missing-info phrase in capitals, found over two documents
C13_Witness ==
    \E p \in AllProcs :
        /\ Returned(p)
        /\ MadeAnswerCall(req[p])
        /\ req[p].response.response_type = "needs_info"
        /\ ~missing_info_signal_case_sensitive(req[p].response.text)
        /\ Len(req[p].chunks) = 2
        /\ AssistantWrites(req[p])[1].committed

\* C15: when the add_message of the user message (step 5) fails at the
\* database the request does not go on: it ends with QUERY_FAILED; a failed
\* add_message of an assistant message or a failed fact store does not end the
\* request with QUERY_FAILED.
C15_UserMessageFailureSurfaces ==
    \A p \in AllProcs :
        LET r == req[p]
        IN /\ "user_message" \in r.failed => (pc[p] = "done" /\ r.error = "QUERY_FAILED")
           /\ (pc[p] = "done" /\ r.failed # {}
                 /\ r.failed \subseteq {"assistant_message", "fact_store"}) => r.error = ""

\* C16: a request whose query-rewriter LLM call failed does not end with
\* QUERY_FAILED: it goes on to the searches with the question unchanged.
C16_RewriterFailureSwallowed ==
    \A p \in AllProcs :
        "rewrite_llm" \in req[p].failed =>
            /\ req[p].error # "QUERY_FAILED"
            /\ pc[p] \in {"classify", "done"}

\* C17: the step in which the answer-mode LLM call fails ends the request with
\* QUERY_FAILED; the request has made no assistant add_message and committed no
\* fact row, the step leaves messages and dynamic_facts as they were, the user
\* message committed at step 5 is still the last message of the session, and a
\* needs_info that was pending when the request loaded its history is still
\* the pending one.
C17_AnswerFailureLeavesSession ==
    [][\A p \in AllProcs :
         ("answer_llm" \in req'[p].failed /\ "answer_llm" \notin req[p].failed) =>
            LET r == req'[p]
                rows == messages'[r.session_id]
            IN /\ pc'[p] = "done"
               /\ r.error = "QUERY_FAILED"
               /\ r.response = NoResponse
               /\ AssistantWrites(r) = <<>>
               /\ r.stored = <<>>
               /\ messages' = messages
               /\ dynamic_facts' = dynamic_facts
               /\ r.writes[1].committed =>
                      (rows # <<>> /\ rows[Len(rows)] = r.writes[1].message)
               /\ get_pending_question(r.history) # "" =>
                      get_pending_question(rows) = get_pending_question(r.history)]_vars

\* the answer-mode call fails while a needs_info is pending
C17_Witness ==
    \E p \in AllProcs :
        /\ pc[p] = "done"
        /\ "answer_llm" \in req[p].failed
        /\ req[p].error = "QUERY_FAILED"
        /\ req[p].writes[1].committed
        /\ get_pending_question(req[p].history) # ""

\* the helper steps whose errors are swallowed
HelperSteps ==
    {"history", "deals", "dynamic_qa", "dynamic_facts", "static_search",
     "tone_rules", "deal_context"}

ResponseTypes == {"answer", "needs_info", "needs_clarification", "draft_email"}

\* C18: a request in which only helper steps failed (history load, active-deal
\* list, dynamic search, static search, tone rules, deal context line) ends
\* with a tagged response and not with QUERY_FAILED, and each failed step gave
\* its safe default: empty history, empty deal list, no chunks, no dynamic rows.
C18_HelperErrorsFallBack ==
    \A p \in AllProcs :
        LET r == req[p]
        IN (r.failed # {} /\ r.failed \subseteq HelperSteps) =>
            /\ r.error = ""
            /\ pc[p] = "done" => r.response.response_type \in ResponseTypes
            /\ "history" \in r.failed => r.history = <<>>
            /\ "deals" \in r.failed /\ r.branch # "clarification" => r.all_deals = <<>>
            /\ "static_search" \in r.failed => r.chunks = <<>>
            /\ {"dynamic_qa", "dynamic_facts"} \subseteq r.failed => r.dynamic_rows = {}

\* the history of a session that has messages cannot be loaded, and the
\* request still returns
C18_Witness ==
    \E p \in AllProcs :
        /\ Returned(p)
        /\ req[p].failed = {"history"}
        /\ Len(messages[req[p].session_id]) > 2
        /\ req[p].response.response_type \in ResponseTypes

\* C19: every response a request returns is tagged with a response_type out
\* of answer, needs_info, needs_clarification, draft_email and carries
\* session_id, active_deal_id and show_draft_button, whatever the branch.
C19_ResponsesTagged ==
    \A p \in AllProcs :
        Returned(p) =>
            /\ req[p].response.response_type \in ResponseTypes
            /\ {"response_type", "session_id", "active_deal_id", "show_draft_button"}
                   \subseteq req[p].response.fields

\* C28: when the search step starts with no active deal, it adopts a deal
\* only if every returned chunk belongs to that one deal; with chunks of
\* several deals, or no chunk, the request goes on without an active deal.
C28_ConsistentDealAdopted ==
    [][\A p \in AllProcs :
          (pc[p] = "route" /\ pc'[p] = "classify" /\ req[p].active_deal_id = NoDeal) =>
              LET chunks == req'[p].chunks
                  deals == {chunks[i].deal_id : i \in 1..Len(chunks)}
              IN IF Cardinality(deals) = 1
                 THEN req'[p].active_deal_id \in deals
                 ELSE req'[p].active_deal_id = NoDeal]_vars

\* the newest assistant message stored for the session is a draft_email
NewestAssistantIsDraft(rows) ==
    LastAssistant(rows) # 0 /\ rows[LastAssistant(rows)].metadata.type = "draft_email"

\* C34: while the newest assistant message stored for a session is the
\* draft_email of a completed answer-supplied subflow (no needs_info message
\* was stored after it), the routing step of a request on that session does
\* not take the answer-supplied branch and writes no dynamic fact.
C34_PendingConsumedOnce ==
    [][\A p \in AllProcs :
          ( /\ pc[p] = "route" /\ pc'[p] # "route"
            /\ NewestAssistantIsDraft(messages[req[p].session_id]) )
          => /\ req'[p].branch # "supplied_answer"
             /\ dynamic_facts' = dynamic_facts]_vars

\* a needs_info, the answer that consumed it, and a third message that is no
\* new question, sent with the deal known: it was not stored as an answer
C34_Witness ==
    \E p \in AllProcs :
        /\ Returned(p)
        /\ NewestAssistantIsDraft(req[p].history)
        /\ ~is_new_question_memo[req[p].question]
        /\ ~is_greeting_memo[req[p].question]
        /\ req[p].active_deal_id # NoDeal
        /\ req[p].branch # "supplied_answer"
        /\ \E i \in 1..Len(req[p].history) :
               /\ req[p].history[i].role = "assistant"
               /\ req[p].history[i].metadata.type = "needs_info"

\* the rows the session of request r held before r stored its own messages
\* (none when the request failed before it had a session)
PriorRows(r) ==
    IF r.session_id = "" THEN <<>>
    ELSE LET rows == messages[r.session_id]
             own == Cardinality({i \in 1..Len(r.writes) : r.writes[i].committed})
         IN SubSeq(rows, 1, Len(rows) - own)

\* the request passes no deal_id and its question names no deal
NamesNoDeal(r) == r.deal_id = NoDeal /\ NamedDeals[r.question] = {}

\* every message request r tried to store carries deal_id D
WritesCarry(r, D) == \A i \in 1..Len(r.writes) : r.writes[i].message.deal_id = D

\* C35 as stated: once a message of a request processed with deal D is stored
\* for a session, every later request on the session that passes no deal_id
\* and names no deal in its question is processed with D and stores its
\* messages with deal_id = D.
C35_DealSticky ==
    \A p \in AllProcs :
        (Returned(p) /\ NamesNoDeal(req[p])) =>
            \A i \in 1..Len(PriorRows(req[p])) :
                PriorRows(req[p])[i].deal_id # NoDeal =>
                    /\ req[p].active_deal_id = PriorRows(req[p])[i].deal_id
                    /\ WritesCarry(req[p], PriorRows(req[p])[i].deal_id)

\* C35 amended: a request that passes no deal_id, names no deal in its
\* question and loads its history (the newest
\* BOT_LAST_CONVERSATION_MESSAGES_LIMIT messages of the session) is processed
\* with the deal_id D of the newest loaded message that has one, and every
\* message it stores, greeting replies included, carries deal_id = D.
C35_NewestDealSticky ==
    \A p \in AllProcs :
        (pc[p] = "done" /\ NamesNoDeal(req[p]) /\ "history" \notin req[p].failed) =>
            LET loaded == LastN(PriorRows(req[p]), BOT_LAST_CONVERSATION_MESSAGES_LIMIT)
            IN HistoryDeals(loaded) # {} =>
                  LET D == loaded[Greatest(HistoryDeals(loaded))].deal_id
                  IN /\ req[p].active_deal_id = D
                     /\ WritesCarry(req[p], D)
                     /\ Returned(p) => req[p].response.active_deal_id = D

\* the session moved from deal 1 to deal 2, and a request that names no deal
\* was processed with deal 2 and stored both its messages
C35_Witness ==
    \E p \in AllProcs :
        /\ Returned(p) /\ NamesNoDeal(req[p]) /\ "history" \notin req[p].failed
        /\ \E i, j \in 1..Len(PriorRows(req[p])) :
               /\ i < j
               /\ PriorRows(req[p])[i].deal_id = 1
               /\ PriorRows(req[p])[j].deal_id = 2
        /\ req[p].active_deal_id = 2
        /\ Len(req[p].writes) = 2
        /\ \A i \in 1..2 : req[p].writes[i].committed

\* the metadata type each branch of answer_question stores
BranchType ==
    [b \in {"greeting", "clarification", "needs_info", "answer", "supplied_answer"} |->
        IF b = "supplied_answer" THEN "draft_email" ELSE b]

IsCommittedWrite(w) == w.committed

\* the messages request r stored, in the order it stored them
OwnRows(r) ==
    LET done == SelectSeq(r.writes, IsCommittedWrite)
    IN [i \in 1..Len(done) |-> done[i].message]

\* the newest rows of r's session are the messages r stored
EndsWithOwnRows(r) ==
    LET rows == messages[r.session_id]
        own == OwnRows(r)
    IN /\ Len(own) <= Len(rows)
       /\ SubSeq(rows, Len(rows) - Len(own) + 1, Len(rows)) = own

\* C36 as stated: a request that returned a response appended exactly one
\* user message followed by exactly one assistant message whose metadata type
\* is the one of the branch taken; a request that raised QUERY_FAILED appended
\* at most the user message.
C36_UserThenAssistantAppended ==
    \A p \in AllProcs :
        /\ Returned(p) =>
              LET r == req[p]
              IN /\ Len(r.writes) = 2
                 /\ \A i \in 1..2 : r.writes[i].committed
                 /\ r.writes[1].message.role = "user"
                 /\ r.writes[2].message.role = "assistant"
                 /\ r.writes[2].message.metadata.type = BranchType[r.branch]
                 /\ EndsWithOwnRows(r)
        /\ (pc[p] = "done" /\ req[p].error # "" /\ req[p].session_id # "") =>
              /\ \A i \in 1..Len(OwnRows(req[p])) : OwnRows(req[p])[i].role = "user"
              /\ Len(OwnRows(req[p])) <= 1
              /\ EndsWithOwnRows(req[p])

\* C36 amended: a request that returned a response made exactly two appends,
\* the user message and then one assistant message whose metadata type is the
\* one of the branch taken; each of the two is stored unless its own write
\* failed at the database, and the stored ones are the newest rows of the
\* session in that order. A request that raised QUERY_FAILED made at most the
\* user append.
C36_TwoAppendsAttempted ==
    \A p \in AllProcs :
        /\ Returned(p) =>
              LET r == req[p]
              IN /\ Len(r.writes) = 2
                 /\ r.writes[1].message.role = "user"
                 /\ r.writes[1].message.content = r.question
                 /\ r.writes[2].message.role = "assistant"
                 /\ r.writes[2].message.metadata.type = BranchType[r.branch]
                 /\ ~r.writes[1].committed => "user_message" \in r.failed
                 /\ ~r.writes[2].committed => "assistant_message" \in r.failed
                 /\ EndsWithOwnRows(r)
        /\ (pc[p] = "done" /\ req[p].error # "" /\ req[p].session_id # "") =>
              /\ Len(req[p].writes) <= 1
              /\ \A i \in 1..Len(req[p].writes) : req[p].writes[i].message.role = "user"
              /\ EndsWithOwnRows(req[p])

\* a request returned a draft_email after storing its user message and the
\* draft
C36_Witness ==
    \E p \in AllProcs :
        /\ Returned(p)
        /\ req[p].branch = "supplied_answer"
        /\ Len(req[p].writes) = 2
        /\ \A i \in 1..2 : req[p].writes[i].committed
        /\ req[p].writes[2].message.metadata.type = "draft_email"
        /\ EndsWithOwnRows(req[p])

\* the rows of writes whose store succeeded, in the order of the writes
RECURSIVE KeptRows(_, _)
KeptRows(writes, oks) ==
    IF writes = <<>> \/ oks = <<>> THEN <<>>
    ELSE (IF Head(oks) THEN <<Head(writes)>> ELSE <<>>) \o KeptRows(Tail(writes), Tail(oks))

\* C38: the answer-supplied subflow adds to the table exactly the rows whose
\* own store succeeded, in order, whatever happened to the rows before and
\* after them; and when the draft call and the draft write do not fail it
\* returns draft_email with the draft stored as the newest message, so that no
\* needs_info is pending, even when no row at all could be stored.
C38_FailedStoreSwallowed ==
    [][\A p \in AllProcs :
          (pc[p] = "route" /\ pc'[p] = "done" /\ req'[p].branch = "supplied_answer") =>
              LET r == req'[p]
                  writes == decomposition_writes_memo[r.store_args[1], r.store_args[2],
                                                      r.store_args[3],
                                                      "deal_name" \notin r.failed]
                  rows == messages'[r.session_id]
              IN /\ Len(r.store_oks) = Len(writes)
                 /\ dynamic_facts' = dynamic_facts \o KeptRows(writes, r.store_oks)
                 /\ ({"draft_llm", "assistant_message"} \cap r.failed = {}) =>
                        /\ r.error = ""
                        /\ r.response.response_type = "draft_email"
                        /\ rows # <<>>
                        /\ rows[Len(rows)].role = "assistant"
                        /\ rows[Len(rows)].metadata.type = "draft_email"
                        /\ get_pending_question(rows) = ""]_vars

\* the subflow could store no row at all, and returned the draft
C38_Witness ==
    \E p \in AllProcs :
        /\ Returned(p)
        /\ req[p].branch = "supplied_answer"
        /\ Len(req[p].store_oks) >= 2
        /\ \A i \in 1..Len(req[p].store_oks) : ~req[p].store_oks[i]
        /\ dynamic_facts = <<>>
        /\ req[p].response.response_type = "draft_email"
        /\ NewestAssistantIsDraft(messages[req[p].session_id])

-----------------------------------------------------------------------------
(* Properties of the fact store, checked under SpecFacts                   *)

FactRowsOf(deal_id, fact_key) ==
    {i \in 1..Len(dynamic_facts) :
        dynamic_facts[i].deal_id = deal_id /\ dynamic_facts[i].fact_key = fact_key}

\* C9: with no failure injected, upsert_fact(d, k, v1) followed by
\* upsert_fact(d, k, v2) on an empty table leaves exactly one row for (d, k),
\* with fact_value v2 and approval_status approved; the first call reports
\* created and the second updated.
C9_UpsertTwice ==
    ( /\ faults = 0
      /\ Len(fact_calls) = 2
      /\ fact_calls[1].op = "upsert_fact" /\ fact_calls[2].op = "upsert_fact"
      /\ fact_calls[1].deal_id = fact_calls[2].deal_id
      /\ fact_calls[1].fact_key = fact_calls[2].fact_key )
    => LET found == FactRowsOf(fact_calls[2].deal_id, fact_calls[2].fact_key)
       IN /\ Cardinality(found) = 1
          /\ \A i \in found :
                /\ dynamic_facts[i].fact_value = fact_calls[2].fact_value
                /\ dynamic_facts[i].approval_status = "approved"
          /\ fact_calls[1].action = "created"
          /\ fact_calls[2].action = "updated"

\* C10: with no failure injected, after any sequence of upsert_fact and
\* store_with_decomposition calls no two rows carry the same deal_id and the
\* same (non-null) fact_key.
C10_FactKeyIsKey ==
    faults = 0 =>
        \A i, j \in 1..Len(dynamic_facts) :
            ( /\ i # j
              /\ dynamic_facts[i].fact_key # ""
              /\ dynamic_facts[i].deal_id = dynamic_facts[j].deal_id )
            => dynamic_facts[i].fact_key # dynamic_facts[j].fact_key

\* the step is a call of store_with_decomposition
IsDecompositionStep ==
    /\ Len(fact_calls') = Len(fact_calls) + 1
    /\ fact_calls'[Len(fact_calls')].op = "store_with_decomposition"

\* the rows the step appended to dynamic_facts
NewRows == SubSeq(dynamic_facts', Len(dynamic_facts) + 1, Len(dynamic_facts'))

IsQaRow(row, deal_id, question, answer) ==
    /\ row.deal_id = deal_id
    /\ row.question = question
    /\ row.answer = answer
    /\ row.fact_key = ""
    /\ row.approval_status = "approved"

\* the atomic facts, the derived key and the stripped answer of every call
AtomicFactsOf ==
    [deal_id \in DealIds, q \in InvestorQuestions, a \in SuppliedAnswers |->
        extract_atomic_facts(q, a, get_deal_name(deal_id, TRUE))]

DerivedKeyOf == [q \in InvestorQuestions |-> derive_fact_key(q)]

StrippedAnswer == [a \in SuppliedAnswers |-> Strip(a)]

-----------------------------------------------------------------------------
(* Properties of the prompt, checked under SpecPrompt                      *)

\* C7: the merged context is dynamic + "\n\n" + static when both are non-empty
\* and otherwise whichever is non-empty; and when the Dynamic KB block is
\* non-empty the user prompt holds it (less its final line break) and every
\* "Document N:" block starts after its end.
C7_DynamicBeforeDocuments ==
    prompt.built =>
        LET dyn == prompt.dynamic_context
            doc == prompt.doc_context
            at == Find(prompt.user_prompt, Strip(dyn))
        IN /\ prompt.full_context =
                  IF dyn # "" /\ doc # "" THEN dyn \o "\n\n" \o doc
                  ELSE IF dyn # "" THEN dyn ELSE doc
           /\ dyn # "" =>
                 /\ at >= 0
                 /\ \A i \in 1..Len(prompt.chunks) :
                       /\ Contains(prompt.user_prompt, document_part(i, prompt.chunks[i]))
                       /\ Find(prompt.user_prompt, "Document " \o ToString(i) \o ":")
                              >= at + Len(Strip(dyn))

\* a block with Q&A rows and key-value facts above two documents
C7_Witness ==
    /\ prompt.built
    /\ Contains(prompt.dynamic_context, "Q: ")
    /\ Contains(prompt.dynamic_context, "Minimum Ticket: ")
    /\ Len(prompt.chunks) = 2
    /\ Find(prompt.user_prompt, TEAM_FACTS_HEADER) >= 0
    /\ Find(prompt.user_prompt, TEAM_FACTS_HEADER) < Find(prompt.user_prompt, "Document 1:")

\* C37 as stated: when the answer-mode prompt is built for a request whose
\* active deal is D, inferred at step 10 or known before, every dynamic-fact
\* row of the TEAM-SUPPLIED FACTS block belongs to D.
C37_TeamFactsOfActiveDeal ==
    (prompt.built /\ prompt.active_deal_id # NoDeal) =>
        \A i \in prompt.dynamic_rows : dynamic_facts[i].deal_id = prompt.active_deal_id

\* C37 amended: when the active deal D is known before the Dynamic KB is
\* searched at step 9, the request keeps D and every dynamic-fact row of the
\* TEAM-SUPPLIED FACTS block belongs to D.
C37_TeamFactsOfSearchedDeal ==
    (prompt.built /\ prompt.searched_deal_id # NoDeal) =>
        /\ prompt.active_deal_id = prompt.searched_deal_id
        /\ \A i \in prompt.dynamic_rows :
               dynamic_facts[i].deal_id = prompt.searched_deal_id

\* the table holds facts of both deals and the prompt, built for deal 1,
\* carries team facts
C37_Witness ==
    /\ prompt.built
    /\ prompt.searched_deal_id = 1
    /\ prompt.dynamic_rows # {}
    /\ \E i \in 1..Len(dynamic_facts) : dynamic_facts[i].deal_id = 2
    /\ Contains(prompt.user_prompt, TEAM_FACTS_HEADER)

-----------------------------------------------------------------------------
(* Properties of retrieval, checked under SpecSearch                       *)

Seq2Set(seq) == {seq[i] : i \in 1..Len(seq)}

\* the rows of the table that contributed to the block a dynamic search returned
ContributingRows == Seq2Set(call.qa_rows) \cup Seq2Set(call.facts)

\* C11: no row whose approval_status is not 'approved' contributes to the
\* block search_dynamic_kb returns, in either pass, with or without a deal
\* scope; the text of the pending row appears nowhere in the block.
C11_UnapprovedInvisible ==
    call.op = "search_dynamic_kb" =>
        /\ \A i \in ContributingRows : dynamic_facts[i].approval_status = "approved"
        /\ ~Contains(call.block, "$99k")

\* a search with and one without deal scope over a table that holds the
\* pending row beside approved rows that were returned
C11_Witness ==
    /\ call.op = "search_dynamic_kb"
    /\ \E i \in 1..Len(dynamic_facts) :
          /\ dynamic_facts[i].approval_status = "pending"
          /\ call.deal_id \in {NoDeal, dynamic_facts[i].deal_id}
    /\ call.qa_rows # <<>>
    /\ call.facts # <<>>

-----------------------------------------------------------------------------
(* Properties of investor-question resolution, checked under SpecResolve   *)

SubstantiveUsers(history) ==
    {k \in 1..Len(history) :
        history[k].role = "user" /\ Len(Strip(history[k].content)) > 20}

ClarificationMessages(history) ==
    {k \in 1..Len(history) :
        /\ history[k].role = "assistant"
        /\ history[k].metadata.type \in {"clarification", "needs_clarification"}
        /\ history[k].metadata.original_question # ""}

Assistants(history) == {k \in 1..Len(history) : history[k].role = "assistant"}

-----------------------------------------------------------------------------
(* Properties of the fact decomposer, checked under SpecExtract            *)

\* C21: for the question on structure, payment dates and minimum ticket of
\* deal D and the three-clause answer, the atomic facts are exactly
\* (investment structure for D, "SPV"), (payment dates for D, "Next Tuesday")
\* and (minimum ticket size for D, "$25K").
C21_MultiPartDecomposition ==
    ( /\ call.op = "extract_atomic_facts"
      /\ call.investor_question = MultiPartQuestion
      /\ call.user_answer = MultiPartAnswer
      /\ call.deal_name # "" )
    => Seq2Set(call.result) =
          { <<"What is the investment structure for " \o call.deal_name \o "?", "SPV">>,
            <<"What are the payment dates for " \o call.deal_name \o "?", "Next Tuesday">>,
            <<"What is the minimum ticket size for " \o call.deal_name \o "?", "$25K">> }

\* the name the templates are filled with
TemplateName(deal_name) == IF deal_name = "" THEN "the deal" ELSE deal_name

\* C22: every fact (fq, v) of extract_atomic_facts(iq, ua, d) has a value v
\* that is a contiguous substring of ua of at least 2 characters and a question
\* fq that is a template of a pattern whose topic keywords occur in iq, filled
\* with the name of d ("the deal" when the name cannot be loaded); no two facts
\* come from the same pattern.
C22_DecompositionSound ==
    call.op = "extract_atomic_facts" =>
        LET facts == call.result
            q_lower == Lower(call.investor_question)
        IN /\ \A i \in 1..Len(facts) :
                 /\ Len(facts[i]) = 2
                 /\ Len(facts[i][2]) >= 2
                 /\ Contains(call.user_answer, facts[i][2])
                 /\ \E k \in 1..Len(FACT_PATTERNS) :
                        /\ facts[i][1] = FACT_PATTERNS[k].tmpl
                                            \o TemplateName(call.deal_name) \o "?"
                        /\ \E t \in 1..Len(FACT_PATTERNS[k].topic) :
                               Contains(q_lower, FACT_PATTERNS[k].topic[t])
           /\ \A i, j \in 1..Len(facts) : i # j => facts[i][1] # facts[j][1]
           /\ Len(facts) <= Len(FACT_PATTERNS)

\* the three-topic question with the three-clause answer gives three facts
C22_Witness ==
    /\ call.op = "extract_atomic_facts"
    /\ call.investor_question = MultiPartQuestion
    /\ call.user_answer = MultiPartAnswer
    /\ call.deal_name = "SpaceX"
    /\ Len(call.result) = 3

-----------------------------------------------------------------------------
(* Properties of sessions, checked under SpecSessions                      *)

\* a step of the named operation; a call that repeats the previous one with
\* the same result and changes no table is a stuttering step
SessionStep(op) == call' # call /\ call'.op = op

HasOneRow(rows, session_id) ==
    Cardinality({i \in 1..Len(rows) : rows[i] = session_id}) = 1

\* C23: no two rows of odp_conversations carry the same session_id. A call of
\* get_or_create_conversation returns unless the database fails, and returns
\* the session of the id the client sent, or of an id no row carried when it
\* sent none, so that sequential calls with one id return one session; when a row with
\* the returned id existed the table is unchanged, otherwise exactly one row
\* with that id is appended; afterwards exactly one row carries the id. No
\* call touches a message, and a call that raises leaves the table unchanged.
C23_GetOrCreateIdempotent ==
    /\ [](\A session_id \in SessionIds : HasOneRow(conversations, session_id))
    /\ [][SessionStep("get_or_create_conversation") =>
            /\ messages' = messages
            /\ call'.raised => conversations' = conversations
            /\ call'.db_ok => ~call'.raised
            /\ ~call'.raised =>
                 /\ call'.session_id # "" => call'.result = call'.session_id
                 /\ call'.session_id = "" => call'.result \notin SessionIds
                 /\ call'.result \in SessionIds => conversations' = conversations
                 /\ call'.result \notin SessionIds =>
                        conversations' = Append(conversations, call'.result)
                 /\ HasOneRow(conversations', call'.result)]_vars

\* a call for a session that already holds a message: the session existed
\* before the call, which returned it next to another session
C23_Witness ==
    /\ call.op = "get_or_create_conversation"
    /\ call.session_id = "s2"
    /\ call.result = "s2"
    /\ ~call.raised
    /\ conversations = <<"s1", "s2">>
    /\ Len(messages["s2"]) = 2

\* C24: generate_draft_from_session for a session_id that has no message, with
\* or without a row in odp_conversations, makes no LLM call and appends no
\* message, and raises NO_CONVERSATION whenever the lookup or creation of the
\* session itself did not fail (a database error there raises DRAFT_FAILED).
C24_DraftWithoutConversation ==
    [][(SessionStep("generate_draft_from_session") /\ messages[call'.session_id] = <<>>) =>
          /\ call'.db_ok => call'.error = "NO_CONVERSATION"
          /\ call'.error \in {"NO_CONVERSATION", "DRAFT_FAILED"}
          /\ call'.llm_calls = <<>>
          /\ messages' = messages]_vars

\* the draft button pressed for a session without messages while another
\* session holds a conversation
C24_Witness ==
    /\ call.op = "generate_draft_from_session"
    /\ call.session_id = "s1"
    /\ call.error = "NO_CONVERSATION"
    /\ call.llm_calls = <<>>
    /\ messages["s1"] = <<>>
    /\ Len(messages["s2"]) = 2

\* C25: a clear of an existing session returns True unless the database fails,
\* and then removes the row of the session and every message of it, and leaves
\* every other session, every other message and every dynamic fact as they
\* were; a clear that returns False (unknown session, database error) changes
\* nothing. A session_id without a row has no message, so the history loaded
\* for a cleared session_id, also once it is created again, is empty and
\* carries no pending question and no deal.
C25_ClearDeletesSessionOnly ==
    /\ [](\A session_id \in SessionPool :
              session_id \notin SessionIds => messages[session_id] = <<>>)
    /\ [][SessionStep("clear_conversation") =>
            LET session_id == call'.session_id
            IN /\ dynamic_facts' = dynamic_facts
               /\ call'.cleared <=> (call'.db_ok /\ session_id \in SessionIds)
               /\ call'.cleared =>
                     /\ IdsOf(conversations') = SessionIds \ {session_id}
                     /\ messages'[session_id] = <<>>
                     /\ \A other \in SessionPool \ {session_id} :
                            messages'[other] = messages[other]
                     /\ call'.deleted = Len(messages[session_id])
               /\ ~call'.cleared => conversations' = conversations /\ messages' = messages]_vars
    /\ [][SessionStep("get_conversation_history") =>
            /\ messages[call'.session_id] = <<>> =>
                  /\ call'.result = <<>>
                  /\ call'.pending_question = ""
                  /\ call'.active_deal_id = NoDeal
            /\ UNCHANGED <<conversations, messages, dynamic_facts>>]_vars

\* a session with a pending needs_info is cleared while another session holds
\* a message and the fact table holds rows
C25_Witness ==
    /\ call.op = "clear_conversation"
    /\ call.session_id = "s1"
    /\ call.cleared
    /\ call.deleted = 2
    /\ conversations = <<"s2">>
    /\ Len(messages["s2"]) = 1
    /\ messages["s1"] = <<>>
    /\ dynamic_facts = FactTableRows

\* C39: a generate_draft call that fails with NO_CONVERSATION or NO_QUESTION
\* leaves the session rows, the messages and the dynamic facts as they were.
C39_FailedDraftChangesNothing ==
    [][( /\ SessionStep("generate_draft_from_session")
         /\ call'.error \in {"NO_CONVERSATION", "NO_QUESTION"} )
       => /\ conversations' = conversations
          /\ messages' = messages
          /\ dynamic_facts' = dynamic_facts]_vars

-----------------------------------------------------------------------------
(* Properties of the messages arrays, checked under SpecHistory            *)

Min(a, b) == IF a < b THEN a ELSE b

\* the history turns of a messages array: all but the first and the last
TurnsOf(array) == SubSeq(array, 2, Len(array) - 1)

\* the rows of the session stored before the request of the last call: all
\* but the user message, if it sent one, and the reply the request appended
RowsBefore(session_id) ==
    SubSeq(messages[session_id], 1,
           Len(messages[session_id]) - (IF call.question # "" THEN 2 ELSE 1))

TurnLimit(mode) == IF mode = "draft" THEN DraftHistoryTurns ELSE AnswerHistoryTurns

\* C26: every messages array of an answer, ask or draft call starts with the
\* one system message and ends with a user message, the built prompt; between
\* them stand the turns of the last N rows stored before the request (N = 6
\* for answer and ask, 10 for draft), oldest first, each with the role, user
\* or assistant, and the content or truncated content of its row. The user
\* message of the request is the row stored after them: it is no turn, its
\* text stands in the last message, and in no turn unless an earlier row held
\* the same text.
C26_HistoryInjectionOrder ==
    call.op = "llm_calls" =>
        \A c \in 1..Len(call.calls) :
            LET array == call.calls[c].messages
                turns == TurnsOf(array)
                before == RowsBefore("s1")
                first == Len(before) - Len(turns)
            IN /\ Len(array) >= 2
               /\ array[1].role = "system"
               /\ array[Len(array)].role = "user"
               /\ Len(turns) = Min(TurnLimit(call.calls[c].mode), Len(before))
               /\ \A j \in 1..Len(turns) :
                     /\ turns[j].role \in {"user", "assistant"}
                     /\ turns[j].role = before[first + j].role
                     /\ turns[j].content \in
                            { Strip(before[first + j].content),
                              SubSeq(Strip(before[first + j].content), 1,
                                     Min(HistoryTruncateLen, Len(Strip(before[first + j].content))))
                                 \o "..." }
               /\ call.question # "" =>
                     /\ messages["s1"][Len(before) + 1] =
                            Message("user", call.question, get_deal_from_history(before), NoMeta)
                     /\ Contains(array[Len(array)].content, call.question)
                     /\ (\A i \in 1..Len(before) : before[i].content # call.question)
                           => \A j \in 1..Len(turns) : turns[j].content # call.question

\* a question asked in a session of 11 rows that ends with a long answer: 10
\* rows are loaded, 6 injected, and the answer and the ask call are made
C26_Witness ==
    /\ call.op = "llm_calls"
    /\ call.handler = "answer_question"
    /\ call.loaded = BOT_LAST_CONVERSATION_MESSAGES_LIMIT
    /\ Len(call.calls) = 2
    /\ Len(TurnsOf(call.calls[2].messages)) = AnswerHistoryTurns
    /\ Len(messages["s1"]) = MaxStored + 2

\* C27: the content of an assistant turn differs from the content of its row,
\* by truncation and "...", exactly when the row is longer than 600 characters
\* in an answer or ask call and longer than 800 characters in a draft call;
\* the content of a user turn is the content of its row.
C27_TruncationThresholds ==
    call.op = "llm_calls" =>
        \A c \in 1..Len(call.calls) :
            LET turns == TurnsOf(call.calls[c].messages)
                before == RowsBefore("s1")
                first == Len(before) - Len(turns)
                threshold == IF call.calls[c].mode = "draft" THEN SummaryTruncateLen
                             ELSE HistoryTruncateLen
            IN \A j \in 1..Len(turns) :
                  LET content == before[first + j].content
                  IN IF turns[j].role = "assistant" /\ Len(content) > threshold
                     THEN turns[j].content = SubSeq(content, 1, threshold) \o "..."
                     ELSE turns[j].content = content

-----------------------------------------------------------------------------
(* Properties of concurrent requests, checked under SpecConcurrent         *)

BothComplete == \A p \in AllProcs : pc[p] = "done" /\ req[p].session_id = "s1"

\* C29: once the two concurrent requests on the session are complete, the
\* session holds at most one assistant needs_info message newer than its last
\* user message.
C29_AtMostOnePendingAfterRace ==
    BothComplete => Cardinality(NeedsInfoAfterLastUser(messages["s1"])) <= 1

Count(rows, message) == Cardinality({i \in 1..Len(rows) : rows[i] = message})

\* C30: every step of the two requests appends at most one row to the session
\* and changes no earlier row, so the user message and the assistant message
\* of a request are separate commits; the rows of the session are exactly the
\* messages the two requests have written, each as often as it was written,
\* and the user message of a request stands before its assistant message.
\* Once both requests are complete the session holds the two user messages
\* and the two assistant messages.
C30_NoMessageLost ==
    /\ [](LET rows == messages["s1"]
               written == req[1].writes \o req[2].writes
           IN /\ Len(rows) = Len(written)
              /\ \A w \in 1..Len(written) :
                    /\ written[w].committed
                    /\ Count(rows, written[w].message)
                         = Cardinality({v \in 1..Len(written) :
                                          written[v].message = written[w].message})
              /\ \A p \in AllProcs :
                    /\ Len(req[p].writes) <= 2
                    /\ Len(req[p].writes) >= 1 => req[p].writes[1].message.role = "user"
                    /\ Len(req[p].writes) = 2 =>
                          /\ req[p].writes[2].message.role = "assistant"
                          /\ \E i, j \in 1..Len(rows) :
                                /\ i < j
                                /\ rows[i] = req[p].writes[1].message
                                /\ rows[j] = req[p].writes[2].message
              /\ BothComplete =>
                    /\ Len(rows) = 4
                    /\ Cardinality({i \in 1..4 : rows[i].role = "user"}) = 2
                    /\ Cardinality({i \in 1..4 : rows[i].role = "assistant"}) = 2)
    /\ [][/\ Len(messages'["s1"]) <= Len(messages["s1"]) + 1
          /\ SubSeq(messages'["s1"], 1, Len(messages["s1"])) = messages["s1"]]_vars

\* both user messages were stored before either reply: the requests overlapped
C30_Witness ==
    /\ BothComplete
    /\ Len(messages["s1"]) = 4
    /\ messages["s1"][1].role = "user"
    /\ messages["s1"][2].role = "user"
    /\ messages["s1"][1] # messages["s1"][2]
    /\ messages["s1"][3] = req[2].writes[2].message
    /\ messages["s1"][4] = req[1].writes[2].message
    /\ messages["s1"][3] # messages["s1"][4]

-----------------------------------------------------------------------------
(* Properties of concurrent upserts, checked under SpecUpsert              *)

\* C31: when two _upsert_fact calls for one (deal_id, fact_key) have both
\* read the table while it held no row for the key, then once both have
\* returned the table holds exactly one row for the key, and one call
\* returned created and the other updated.
C31_ConcurrentUpsertOneRow ==
    ( /\ \A p \in AllProcs : pc[p] = "done" /\ req[p].found = 0
      /\ req[1].deal_id = req[2].deal_id
      /\ req[1].fact_key = req[2].fact_key )
    => /\ Cardinality({i \in 1..Len(dynamic_facts) :
                          /\ dynamic_facts[i].deal_id = req[1].deal_id
                          /\ dynamic_facts[i].fact_key = req[1].fact_key}) = 1
       /\ {req[1].action, req[2].action} = {"created", "updated"}

-----------------------------------------------------------------------------
(* Properties of the clarifier, checked under SpecClarify                  *)

\* the lower-cased question contains a general-knowledge keyword
HasGeneralKeyword(question) ==
    \E pattern \in GENERAL_KEYWORDS : Contains(Lower(question), pattern)

\* C32: needs_clarification(question, chunks_found, confidence, has_deal) is
\* false whenever has_deal is true, false when has_deal is false and the
\* lower-cased question contains a general-knowledge keyword, and true
\* otherwise, whatever chunks_found and confidence are; so Step 11 never
\* returns needs_clarification for a request with a known active deal.
C32_ClarifierIgnoresRetrieval ==
    /\ call.op \in {"needs_clarification", "step_11"} =>
          call.result = (~call.has_deal_context /\ ~HasGeneralKeyword(call.question))
    /\ call.op = "step_11" /\ call.active_deal_id # NoDeal =>
          call.response_type # "needs_clarification"

\* the clarifier was called with a deal context, no chunks and low
\* confidence, for a question without a general keyword, and said no
C32_Witness ==
    /\ call.op = "needs_clarification"
    /\ call.has_deal_context
    /\ call.chunks_found = 0
    /\ call.confidence = "low"
    /\ ~HasGeneralKeyword(call.question)
    /\ ~call.result

-----------------------------------------------------------------------------
(* Properties of email threads, checked under SpecThreads                  *)

\* C33: at every moment, whatever submit_thread and deactivate_thread calls
\* have run (calls whose deactivation failed at the database and overlapping
\* submit_thread calls included), every session has at most one thread row
\* with is_active = true.
C33_AtMostOneActiveThread ==
    \A session_id \in ThreadSessions :
        Cardinality({i \in 1..Len(email_threads) :
                        /\ email_threads[i].session_id = session_id
                        /\ email_threads[i].is_active}) <= 1

====
